---- MODULE Spec2Model ----
(***************************************************************************)
(* Model of the ingestion core of app.py (MA Enrollment Intelligence       *)
(* Dashboard): column normalisation, enrollment cleansing, archive member  *)
(* selection, per-period source resolution and the window aggregator.      *)
(*                                                                         *)
(* Text representation.                                                    *)
(*  - A column label is a sequence of atoms (strings).  The string the     *)
(*    program sees is the concatenation of the atoms.  The atoms used are  *)
(*    header words ("Plan ID", "contract number", ...), the blank " " (only *)
(*    at either end of a label), the suffixes "_dupN" written by            *)
(*    _dedup_columns and the suffixes "_N" written by the final pass of     *)
(*    _normalise_cols.  No header word ends in "_dupN" or "_N", so two      *)
(*    labels are the same string exactly when they are the same sequence.  *)
(*  - A cell, an archive member name and a hint are sequences of           *)
(*    one-character strings.                                               *)
(***************************************************************************)
EXTENDS Integers, Sequences, FiniteSets, TLC

VARIABLES
    input,        \* argument drawn for a pure function under test
    calls,        \* sequence of [fn, arg, ret]: the applications made so far
    today,        \* date.today(), as [year, month]
    local_store,  \* the local artifact store: path -> file content
    remote,       \* the remote source: url -> response
    now,          \* the clock, in seconds
    fetch_cache,  \* st.cache_data of _fetch_zip_df: <<url, hint>> -> [value, at]
    enroll_cache, \* st.cache_data of load_enrollment: months -> [value, at]
    requests,     \* the urls requested from the remote source, in order
    pc,           \* "idle", "loop" (inside load_enrollment) or "returned"
    months,       \* load_enrollment: its argument
    i,            \* load_enrollment: periods of the list already handled
    frames,       \* load_enrollment: accepted frames
    sources,      \* for each accepted frame, its period and where its rows were read from
    local_count,  \* load_enrollment: provenance counter
    live_count,   \* load_enrollment: provenance counter
    aligned,      \* load_enrollment: the frames handed to pd.concat
    result,       \* what load_enrollment returned: [df, attrs]
    epoch,        \* how many times the caches were cleared
    plandir_cache, \* st.cache_data of load_plan_directory: <<>> -> [value, at]
    build,        \* how many times a cached function's body has run
    request_log,  \* for each entry of requests: [at, epoch, build]
    reads,        \* the local files read, in order: [path, build]
    served,       \* the runs of the body of load_enrollment that returned
    dir_served,   \* the runs of the body of load_plan_directory that returned
    plan_df       \* main: what load_plan_directory returned last

pureVars == <<input, calls>>
envVars == <<today, local_store, remote>>
cacheVars == <<now, fetch_cache, enroll_cache, epoch, plandir_cache>>
loadVars == <<requests, pc, months, i, frames, sources, local_count, live_count,
              aligned, result, build, request_log, reads, served, dir_served, plan_df>>
vars == <<input, calls, today, local_store, remote, now, fetch_cache,
          enroll_cache, requests, pc, months, i, frames, sources, local_count,
          live_count, aligned, result, epoch, plandir_cache, build, request_log,
          reads, served, dir_served, plan_df>>

None == "None"

(***************************************************************************)
(* Bounds                                                                  *)
(***************************************************************************)
MaxCols == 3        \* longest header drawn for _normalise_cols
MaxTextLen == 3     \* longest free Enrollment text drawn for _clean_enrollment
MaxCleanRows == 2   \* most rows of a table drawn for _clean_enrollment
MaxCpscCols == 4    \* longest header drawn for normalise_cpsc
CpscRows == 2       \* rows of a table drawn for normalise_cpsc
MaxNames == 3       \* longest archive name list drawn for _pick_file
MaxWindow == 14       \* longest window asked of rolling_months
MaxDirRows == 2       \* most rows of a plan directory file
MaxEnrollRows == 2    \* most rows of an enrollment table handed to add_parent_org
MaxBuilds == 2        \* most runs of the body of load_enrollment in one behaviour
MaxRefreshes == 1     \* most cache clearings in one behaviour
MaxPeriods == 2     \* longest period list drawn for load_enrollment

(***************************************************************************)
(* Program constants                                                       *)
(***************************************************************************)
MIN_DIR_ROWS == 5         \* len(df) > 5
DIR_MONTHS == 6           \* rolling_months(6)
PLANDIR_TTL == 86400      \* ttl of load_plan_directory's cache
MIN_ROWS == 10          \* len(df) > 10
MIN_CSV_COLS == 3       \* len(df.columns) >= 3
HTTP_OK == 200          \* r.status_code != 200
FETCH_TTL == 21600      \* ttl of _fetch_zip_df's cache
ENROLL_TTL == 21600     \* ttl of load_enrollment's cache

(***************************************************************************)
(* Sequence helpers                                                        *)
(***************************************************************************)
Last(s) == s[Len(s)]
Front(s) == SubSeq(s, 1, Len(s) - 1)
Range(s) == {s[k] : k \in DOMAIN s}
EmptyMap == [k \in {} |-> 0]
MinIndex(S) == CHOOSE x \in S : \A y \in S : x <= y

\* F applied to the value of e, e being evaluated once
Bind(e, F(_)) == CHOOSE y \in {F(x) : x \in {e}} : TRUE

SeqsUpTo(S, n) == UNION {[1..m -> S] : m \in 0..n}

\* df.columns.duplicated().any()
HasDuplicates(cols) == \E a, b \in DOMAIN cols : a < b /\ cols[a] = cols[b]

(***************************************************************************)
(* str.lower and str.strip on labels                                       *)
(***************************************************************************)
LowerAtom(a) ==
    CASE a = "Plan ID" -> "plan id"
      [] a = "Plan_ID" -> "plan_id"
      [] a = "Contract_ID" -> "contract_id"
      [] a = "Org_Name" -> "org_name"
      [] a = "Segment_ID" -> "segment_id"
      [] a = "Plan_Type" -> "plan_type"
      [] a = "State" -> "state"
      [] a = "County" -> "county"
      [] a = "SSA_Code" -> "ssa_code"
      [] a = "Enrollment" -> "enrollment"
      [] a = "Enrolled" -> "enrolled"
      [] a = "Enrollees" -> "enrollees"
      [] a = "Parent_Org" -> "parent_org"
      [] OTHER -> a

Lower(label) == [k \in DOMAIN label |-> LowerAtom(label[k])]

RECURSIVE LStrip(_)
LStrip(label) ==
    IF label # <<>> /\ Head(label) = " " THEN LStrip(Tail(label)) ELSE label

RECURSIVE RStrip(_)
RStrip(label) ==
    IF label # <<>> /\ Last(label) = " " THEN RStrip(Front(label)) ELSE label

Strip(label) == RStrip(LStrip(label))

(***************************************************************************)
(* f"{c}_dup{n}" and f"{c}_{n}"                                            *)
(***************************************************************************)
DupSuffixes == <<"_dup1", "_dup2", "_dup3", "_dup4", "_dup5", "_dup6",
                 "_dup7", "_dup8", "_dup9">>
NumSuffixes == <<"_1", "_2", "_3", "_4", "_5", "_6", "_7", "_8", "_9">>

FmtDup(c, n) == Append(c, DupSuffixes[n])
FmtNum(c, n) == Append(c, NumSuffixes[n])

(***************************************************************************)
(* Alias maps                                                              *)
(***************************************************************************)
CPSC_COL_ALIASES ==
    ("contract_number" :> "Contract_ID") @@ ("contract number" :> "Contract_ID") @@
    ("h_number" :> "Contract_ID") @@ ("h number" :> "Contract_ID") @@
    ("plan_id" :> "Plan_ID") @@ ("plan id" :> "Plan_ID") @@
    ("plan_identifier" :> "Plan_ID") @@
    ("segment_id" :> "Segment_ID") @@ ("segment id" :> "Segment_ID") @@
    ("organization_name" :> "Org_Name") @@ ("organization name" :> "Org_Name") @@
    ("organization_marketing_name" :> "Org_Name") @@
    ("organization marketing name" :> "Org_Name") @@
    ("contract_name" :> "Org_Name") @@ ("contract name" :> "Org_Name") @@
    ("state" :> "State") @@ ("state_code" :> "State") @@ ("state code" :> "State") @@
    ("ssa_state_code" :> "State_SSA") @@
    ("county" :> "County") @@ ("county_name" :> "County") @@
    ("county name" :> "County") @@
    ("ssa_county_code" :> "County_SSA") @@
    ("ssa_state_county_code" :> "SSA_Code") @@
    ("ssa state county code" :> "SSA_Code") @@
    ("fips_state_county_code" :> "FIPS") @@
    ("plan_type" :> "Plan_Type") @@ ("plan type" :> "Plan_Type") @@
    ("type_of_medicare_health_plan" :> "Plan_Type") @@
    ("type of medicare health plan" :> "Plan_Type") @@
    ("enrollment" :> "Enrollment") @@ ("total_enrollment" :> "Enrollment") @@
    ("total enrollment" :> "Enrollment") @@ ("enrolled" :> "Enrollment")

PLANDIR_COL_ALIASES ==
    ("contract_number" :> "Contract_ID") @@ ("contract number" :> "Contract_ID") @@
    ("h_number" :> "Contract_ID") @@ ("h number" :> "Contract_ID") @@
    ("contract_id" :> "Contract_ID") @@
    ("organization_name" :> "Org_Name") @@ ("organization name" :> "Org_Name") @@
    ("contract_name" :> "Org_Name") @@ ("contract name" :> "Org_Name") @@
    ("parent_organization" :> "Parent_Org") @@
    ("parent organization" :> "Parent_Org") @@
    ("parent_org" :> "Parent_Org") @@ ("parent org" :> "Parent_Org") @@
    ("plan_type" :> "Plan_Type") @@ ("plan type" :> "Plan_Type")

\* alias_map.get(key): the key string is one of the map's keys exactly when
\* the label is that single atom.
AliasGet(alias_map, key) ==
    IF Len(key) = 1 /\ key[1] \in DOMAIN alias_map
    THEN alias_map[key[1]] ELSE None

(***************************************************************************)
(* _dedup_columns                                                          *)
(***************************************************************************)
RECURSIVE DedupLoop(_, _, _)
DedupLoop(cols, seen, unique_cols) ==
    IF cols = <<>> THEN unique_cols
    ELSE LET c == Head(cols) IN
         IF c \in DOMAIN seen
         THEN DedupLoop(Tail(cols), [seen EXCEPT ![c] = @ + 1],
                        Append(unique_cols, FmtDup(c, seen[c] + 1)))
         ELSE DedupLoop(Tail(cols), seen @@ (c :> 1), Append(unique_cols, c))

_dedup_columns(columns) ==
    DedupLoop([k \in DOMAIN columns |-> Strip(columns[k])], EmptyMap, <<>>)

(***************************************************************************)
(* _normalise_cols                                                         *)
(***************************************************************************)
\* the "_dup2" .. "_dup9" suffix stripped before the second lookup
BaseKey(key) ==
    IF key # <<>> /\ \E n \in 2..9 : Last(key) = DupSuffixes[n]
    THEN Front(key) ELSE key

AliasTarget(alias_map, c) ==
    LET key == Lower(Strip(c))
        first == AliasGet(alias_map, key)
    IN  IF first # None THEN first ELSE AliasGet(alias_map, BaseKey(key))

\* mutant of RenameLoop: a later column resolving to a target takes it over
RECURSIVE RenameLoopLastWins(_, _, _)
RenameLoopLastWins(cols, alias_map, st) ==
    IF cols = <<>> THEN st.rename
    ELSE LET c == Head(cols)
             target == AliasTarget(alias_map, c)
             others == {k \in DOMAIN st.rename : st.rename[k] # <<target>>}
         IN  IF target # None
             THEN RenameLoopLastWins(Tail(cols), alias_map,
                     [rename |-> (c :> <<target>>) @@ [k \in others |-> st.rename[k]],
                      target_seen |-> st.target_seen \cup {target}])
             ELSE RenameLoopLastWins(Tail(cols), alias_map, st)

\* the loop that builds the rename dict; st = [rename, target_seen]
RECURSIVE RenameLoop(_, _, _)
RenameLoop(cols, alias_map, st) ==
    IF cols = <<>> THEN st.rename
    ELSE LET c == Head(cols)
             target == AliasTarget(alias_map, c)
         IN  IF target # None /\ target \notin st.target_seen
             THEN RenameLoop(Tail(cols), alias_map,
                             [rename |-> (c :> <<target>>) @@ st.rename,
                              target_seen |-> st.target_seen \cup {target}])
             ELSE RenameLoop(Tail(cols), alias_map, st)

BuildRename(cols, alias_map) ==
    RenameLoop(cols, alias_map, [rename |-> EmptyMap, target_seen |-> {}])

\* df.rename(columns=rename): every column carrying a key of the dict is renamed
ApplyRename(cols, rename) ==
    [k \in DOMAIN cols |->
        IF cols[k] \in DOMAIN rename THEN rename[cols[k]] ELSE cols[k]]

RECURSIVE FinalLoop(_, _, _)
FinalLoop(cols, seen2, final_cols) ==
    IF cols = <<>> THEN final_cols
    ELSE LET c == Head(cols) IN
         IF c \in DOMAIN seen2
         THEN FinalLoop(Tail(cols), [seen2 EXCEPT ![c] = @ + 1],
                        Append(final_cols, FmtNum(c, seen2[c] + 1)))
         ELSE FinalLoop(Tail(cols), seen2 @@ (c :> 1), Append(final_cols, c))

FinalSafety(cols) ==
    IF HasDuplicates(cols) THEN FinalLoop(cols, EmptyMap, <<>>) ELSE cols

_normalise_cols(columns, alias_map) ==
    LET deduped == _dedup_columns(columns)
        renamed == ApplyRename(deduped, BuildRename(deduped, alias_map))
    IN  FinalSafety(renamed)

(***************************************************************************)
(* Text of a cell: a sequence of one-character strings                     *)
(***************************************************************************)
Digits == <<"0", "1", "2", "3", "4", "5", "6", "7", "8", "9">>
IsDigit(ch) == \E d \in DOMAIN Digits : Digits[d] = ch
DigitVal(ch) == (CHOOSE d \in DOMAIN Digits : Digits[d] = ch) - 1

\* str(n) for 0 <= n <= 99
DecStr(n) == IF n < 10 THEN <<Digits[n + 1]>>
             ELSE <<Digits[(n \div 10) + 1], Digits[(n % 10) + 1]>>

\* .str.replace(old, new, regex=False) for a one-character old
RECURSIVE ReplaceChar(_, _, _)
ReplaceChar(text, old, new) ==
    IF text = <<>> THEN <<>>
    ELSE (IF Head(text) = old THEN new ELSE <<Head(text)>>)
         \o ReplaceChar(Tail(text), old, new)

\* .str.strip(): the blanks at both ends
RECURSIVE LStripText(_)
LStripText(text) ==
    IF text # <<>> /\ Head(text) = " " THEN LStripText(Tail(text)) ELSE text

RECURSIVE RStripText(_)
RStripText(text) ==
    IF text # <<>> /\ Last(text) = " " THEN RStripText(Front(text)) ELSE text

StripText(text) == RStripText(LStripText(text))

RECURSIVE DigitsValue(_, _)
DigitsValue(text, acc) ==
    IF text = <<>> THEN acc
    ELSE DigitsValue(Tail(text), 10 * acc + DigitVal(Head(text)))

AllDigits(text) == \A k \in DOMAIN text : IsDigit(text[k])

\* pd.to_numeric(..., errors="coerce").fillna(0).astype(int) on one string:
\* an optional "-", digits with at most one "." and at least one digit parse
\* to a number, which astype(int) truncates towards zero; anything else is
\* NaN, filled with 0.
ToInt(text) ==
    LET neg == text # <<>> /\ Head(text) = "-"
        body == IF neg THEN Tail(text) ELSE text
        dots == {k \in DOMAIN body : body[k] = "."}
        whole == IF dots = {} THEN body
                 ELSE SubSeq(body, 1, (CHOOSE k \in dots : TRUE) - 1)
        frac == IF dots = {} THEN <<>>
                ELSE SubSeq(body, (CHOOSE k \in dots : TRUE) + 1, Len(body))
        valid == /\ Cardinality(dots) <= 1
                 /\ AllDigits(whole) /\ AllDigits(frac)
                 /\ Len(whole) + Len(frac) >= 1
        magnitude == DigitsValue(whole, 0)
    IN  IF ~valid THEN 0
        ELSE IF neg THEN 0 - magnitude ELSE magnitude

\* the coercion of one Enrollment cell (src lines 384-392)
CoerceEnrollment(text) ==
    ToInt(StripText(ReplaceChar(ReplaceChar(text, ",", <<>>), "*", <<"0">>)))

\* .str.zfill(width): zeros on the left, after a leading sign
RECURSIVE ZFill(_, _)
ZFill(text, width) ==
    IF Len(text) >= width THEN text
    ELSE IF text # <<>> /\ Head(text) \in {"-", "+"}
         THEN <<Head(text)>> \o ZFill(<<"0">> \o Tail(text), width - 1)
         ELSE ZFill(<<"0">> \o text, width)

(***************************************************************************)
(* Frames: [cols |-> sequence of labels, rows |-> sequence of rows], a row *)
(* being the sequence of its cells in column order                         *)
(***************************************************************************)
Positions(cols, c) == {k \in DOMAIN cols : cols[k] = c}
HasCol(df, c) == Positions(df.cols, c) # {}

RECURSIVE SetToSeq(_)
SetToSeq(S) ==
    IF S = {} THEN <<>>
    ELSE LET m == CHOOSE x \in S : \A y \in S : x <= y
         IN  <<m>> \o SetToSeq(S \ {m})

\* df[c] = value(row): assigns every column labelled c, or appends the column
SetCol(frame, c, value(_)) ==
    Bind(frame, LAMBDA df :
        IF HasCol(df, c)
        THEN [df EXCEPT !.rows =
                [r \in DOMAIN df.rows |->
                    [k \in DOMAIN df.cols |->
                        IF df.cols[k] = c THEN value(df.rows[r]) ELSE df.rows[r][k]]]]
        ELSE [cols |-> Append(df.cols, c),
              rows |-> [r \in DOMAIN df.rows |->
                          Append(df.rows[r], value(df.rows[r]))]])

\* df[[c1, c2, ...]]: for each requested label, every column carrying it
RECURSIVE SelectPositions(_, _)
SelectPositions(cols, wanted) ==
    IF wanted = <<>> THEN <<>>
    ELSE SetToSeq(Positions(cols, Head(wanted))) \o SelectPositions(cols, Tail(wanted))

Select(frame, wanted) ==
    Bind(frame, LAMBDA df :
        Bind(SelectPositions(df.cols, wanted), LAMBDA pos :
            [cols |-> [k \in DOMAIN pos |-> df.cols[pos[k]]],
             rows |-> [r \in DOMAIN df.rows |->
                         [k \in DOMAIN pos |-> df.rows[r][pos[k]]]]]))

\* df[mask], the mask given as the set of row numbers kept
FilterRows(rows, kept) ==
    Bind(SetToSeq({r \in DOMAIN rows : r \in kept}), LAMBDA pos :
        [k \in DOMAIN pos |-> rows[pos[k]]])

Ok(df) == [ok |-> TRUE, df |-> df]
Raised == [ok |-> FALSE]

(***************************************************************************)
(* _clean_enrollment                                                       *)
(***************************************************************************)
Enrollment == <<"Enrollment">>

\* "enroll" in c.lower()
EnrollAtoms == {"enrollment", "enrolled", "total_enrollment", "total enrollment",
                "enrollees"}
ContainsEnroll(c) == \E k \in DOMAIN c : LowerAtom(c[k]) \in EnrollAtoms

Zero(row) == <<"0">>

\* lines 378-383: make sure a column is called Enrollment
EnsureEnrollment(frame) ==
    Bind(frame, LAMBDA df :
        IF HasCol(df, Enrollment) THEN df
        ELSE LET candidates == {k \in DOMAIN df.cols : ContainsEnroll(df.cols[k])}
             IN  IF candidates # {}
                 THEN [df EXCEPT !.cols =
                         ApplyRename(df.cols, df.cols[MinIndex(candidates)] :> Enrollment)]
                 ELSE SetCol(df, Enrollment, Zero))

\* lines 384-393.  df["Enrollment"] is a table, not a column, when the label
\* is carried twice: its .str access raises AttributeError.
_clean_enrollment(frame) ==
    Bind(EnsureEnrollment(frame), LAMBDA df :
        IF Cardinality(Positions(df.cols, Enrollment)) # 1 THEN Raised
        ELSE Bind(MinIndex(Positions(df.cols, Enrollment)), LAMBDA e :
             Bind([r \in DOMAIN df.rows |->
                      [df.rows[r] EXCEPT ![e] = CoerceEnrollment(@)]], LAMBDA coerced :
                Ok([df EXCEPT !.rows =
                      FilterRows(coerced, {r \in DOMAIN coerced : coerced[r][e] > 0})]))))

(***************************************************************************)
(* normalise_cpsc                                                          *)
(***************************************************************************)
CPSC_OUTPUT_COLS ==
    << <<"Contract_ID">>, <<"Plan_ID">>, <<"Segment_ID">>, <<"Org_Name">>,
       <<"State">>, <<"County">>, <<"Plan_Type">>, <<"Enrollment">>,
       <<"Year">>, <<"Month">>, <<"Period">>, <<"Period_Label">> >>

\* the columns normalise_cpsc creates empty when absent, in the loop's order
GUARANTEED_COLS ==
    << <<"State">>, <<"County">>, <<"Contract_ID">>, <<"Plan_ID">>,
       <<"Plan_Type">>, <<"Org_Name">>, <<"Segment_ID">> >>

\* MONTH_NAMES[month].title()[:3]
MONTH_ABBR == <<"Jan", "Feb", "Mar", "Apr", "May", "Jun",
                "Jul", "Aug", "Sep", "Oct", "Nov", "Dec">>

EmptyText(row) == <<>>

\* lines 409-411.  df["SSA_Code"] is a table when the label is carried twice,
\* and its .str access raises.
DeriveState(frame) ==
    Bind(frame, LAMBDA df :
        IF HasCol(df, <<"State">>) \/ ~HasCol(df, <<"SSA_Code">>) THEN Ok(df)
        ELSE IF Cardinality(Positions(df.cols, <<"SSA_Code">>)) # 1 THEN Raised
        ELSE Bind(MinIndex(Positions(df.cols, <<"SSA_Code">>)), LAMBDA s :
             Ok(SetCol(SetCol(df, <<"SSA_Code">>, LAMBDA row : ZFill(row[s], 5)),
                       <<"State">>, LAMBDA row : SubSeq(row[s], 1, 2)))))

\* a guarantee loop creating the missing columns with "0" in place of ""
RECURSIVE GuaranteeColsZero(_, _)
GuaranteeColsZero(frame, wanted) ==
    IF wanted = <<>> THEN frame
    ELSE Bind(frame, LAMBDA df :
            GuaranteeColsZero(
               IF HasCol(df, Head(wanted)) THEN df
               ELSE SetCol(df, Head(wanted), LAMBDA row : <<"0">>),
               Tail(wanted)))

\* lines 414-417
RECURSIVE GuaranteeCols(_, _)
GuaranteeCols(frame, wanted) ==
    IF wanted = <<>> THEN frame
    ELSE Bind(frame, LAMBDA df :
            GuaranteeCols(
               IF HasCol(df, Head(wanted)) THEN df
               ELSE SetCol(df, Head(wanted), EmptyText),
               Tail(wanted)))

\* lines 419-422
TagPeriod(df, year, month) ==
    SetCol(SetCol(SetCol(SetCol(df,
        <<"Year">>, LAMBDA row : year),
        <<"Month">>, LAMBDA row : month),
        <<"Period">>, LAMBDA row : <<year, month, 1>>),
        <<"Period_Label">>, LAMBDA row : <<MONTH_ABBR[month], year>>)

\* lines 426-427
SelectPresent(frame) ==
    Bind(frame, LAMBDA df :
        Select(df, SelectSeq(CPSC_OUTPUT_COLS, LAMBDA c : HasCol(df, c))))

normalise_cpsc(frame, year, month) ==
    Bind(frame, LAMBDA df :
    Bind(_clean_enrollment(
            [df EXCEPT !.cols = _normalise_cols(df.cols, CPSC_COL_ALIASES)]),
         LAMBDA cleaned :
            IF ~cleaned.ok THEN Raised
            ELSE Bind(DeriveState(cleaned.df), LAMBDA derived :
                 IF ~derived.ok THEN Raised
                 ELSE Ok(SelectPresent(
                            TagPeriod(GuaranteeCols(derived.df, GUARANTEED_COLS),
                                      year, month))))))

(***************************************************************************)
(* Raw tables drawn as inputs: the cell of column j in row i reads         *)
(* "<j><i>" (a positive number, different in every column), or "*" in the  *)
(* rows the source masked.                                                 *)
(***************************************************************************)
GridTable(header, nrows, masked) ==
    [cols |-> header,
     rows |-> [r \in 1..nrows |->
                [j \in DOMAIN header |->
                    IF r \in masked THEN <<"*">> ELSE DecStr(j) \o DecStr(r)]]]

(***************************************************************************)
(* _pick_file: names and hints are sequences of one-character strings      *)
(***************************************************************************)
LowerChar(ch) ==
    CASE ch = "A" -> "a" [] ch = "B" -> "b" [] ch = "C" -> "c"
      [] ch = "L" -> "l" [] ch = "M" -> "m" [] ch = "O" -> "o"
      [] ch = "P" -> "p" [] ch = "S" -> "s" [] ch = "V" -> "v"
      [] ch = "X" -> "x"
      [] OTHER -> ch

LowerText(text) == [k \in DOMAIN text |-> LowerChar(text[k])]

StartsWith(text, prefix) ==
    Len(text) >= Len(prefix) /\ SubSeq(text, 1, Len(prefix)) = prefix

EndsWith(text, suffix) ==
    /\ Len(text) >= Len(suffix)
    /\ SubSeq(text, Len(text) - Len(suffix) + 1, Len(text)) = suffix

\* sub in text
Contains(text, sub) ==
    \E k \in 1..(Len(text) - Len(sub) + 1) :
        SubSeq(text, k, k + Len(sub) - 1) = sub

EXT_CSV == <<".", "c", "s", "v">>
EXT_XLSX == <<".", "x", "l", "s", "x">>
EXT_XLS == <<".", "x", "l", "s">>
MACOSX == <<"_", "_", "M", "A", "C", "O", "S", "X">>

EndsCsv(n) == EndsWith(LowerText(n), EXT_CSV)
EndsSheet(n) == EndsWith(LowerText(n), EXT_XLSX) \/ EndsWith(LowerText(n), EXT_XLS)
Skipped(n) == Contains(n, MACOSX) \/ StartsWith(n, <<".">>)

Found(n) == [found |-> TRUE, name |-> n]
NotFound == [found |-> FALSE]

\* a loop "for n in names: if test(n): return n"; NotFound when it runs out
FirstWhere(names, test(_)) ==
    LET hits == {k \in DOMAIN names : test(names[k])}
    IN  IF hits = {} THEN NotFound
        ELSE Found(names[CHOOSE k \in hits : \A j \in hits : k <= j])

\* mutant of HintMatches: the hint is compared case-sensitively
HintMatchesCaseSensitive(n, preferred_hint) ==
    /\ preferred_hint # <<>>
    /\ Contains(n, preferred_hint)
    /\ (EndsCsv(n) \/ EndsSheet(n))

\* lines 232-233
HintMatches(n, preferred_hint) ==
    /\ preferred_hint # <<>>
    /\ Contains(LowerText(n), LowerText(preferred_hint))
    /\ (EndsCsv(n) \/ EndsSheet(n))

_pick_file(names, preferred_hint) ==
    LET byHint == FirstWhere(names, LAMBDA n : HintMatches(n, preferred_hint))
        byCsv == FirstWhere(names, LAMBDA n : ~Skipped(n) /\ EndsCsv(n))
        bySheet == FirstWhere(names, LAMBDA n : ~Skipped(n) /\ EndsSheet(n))
    IN  IF byHint.found THEN byHint
        ELSE IF byCsv.found THEN byCsv
        ELSE bySheet

(***************************************************************************)
(* Periods, urls and local paths                                           *)
(***************************************************************************)
MONTH_NAMES == <<"january", "february", "march", "april", "may", "june", "july",
                 "august", "september", "october", "november", "december">>

\* a subtraction that numbers the months 0..11
MonthsBeforeZeroBased(year, month, k) ==
    LET idx == year * 12 + (month - 1) - k
    IN  [yr |-> idx \div 12, mo |-> idx % 12]

\* (a first-of-month date) - relativedelta(months=k)
MonthsBefore(year, month, k) ==
    LET idx == year * 12 + (month - 1) - k
    IN  [yr |-> idx \div 12, mo |-> (idx % 12) + 1]

rolling_months(n, day) ==
    LET base == MonthsBefore(day.year, day.month, 2)
    IN  [k \in 1..n |-> MonthsBefore(base.yr, base.mo, k - 1)]

cpsc_url(yr, mo) == <<"monthly-enrollment-cpsc", MONTH_NAMES[mo], yr>>

EXTENSIONS == <<<<".", "c", "s", "v">>, <<".", "x", "l", "s", "x">>, <<".", "x", "l", "s">>>>

\* os.path.join(CPSC_DIR, f"cpsc-{year}-{month:02d}{ext}")
CpscPath(yr, mo, ext) == <<"cpsc", yr, mo, ext>>

NoPath == <<>>

\* the first extension for which the file exists
_local_cpsc_path(store, yr, mo) ==
    LET there == {e \in DOMAIN EXTENSIONS : CpscPath(yr, mo, EXTENSIONS[e]) \in DOMAIN store}
    IN  IF there = {} THEN NoPath
        ELSE CpscPath(yr, mo, EXTENSIONS[MinIndex(there)])

(***************************************************************************)
(* Reading a file.  A content is [kind |-> "table", df |-> frame] when the *)
(* bytes decode to that frame and [kind |-> "garbage"] when no decoder     *)
(* accepts them.                                                           *)
(***************************************************************************)
NoneDf == [ok |-> FALSE]

\* pd.read_csv over the encodings: a frame is returned only with 3 columns
\* or more
ReadCsv(content) ==
    IF content.kind = "table" /\ Len(content.df.cols) >= MIN_CSV_COLS
    THEN Ok(content.df) ELSE NoneDf

\* pd.read_excel; an exception gives None
ReadExcel(content) ==
    IF content.kind = "table" THEN Ok(content.df) ELSE NoneDf

_read_local_file(store, path) ==
    IF EndsWith(LowerText(path[4]), EXT_CSV)
    THEN ReadCsv(store[path]) ELSE ReadExcel(store[path])

(***************************************************************************)
(* _fetch_zip_df and its cache                                             *)
(***************************************************************************)
HINT_CPSC == <<"C", "P", "S", "C">>

\* the function body: a response is [status, zip_ok, names, files]
FetchBody(response, hint) ==
    IF response.status # HTTP_OK THEN NoneDf
    ELSE IF ~response.zip_ok THEN NoneDf
    ELSE LET target == _pick_file(response.names, hint) IN
         IF ~target.found THEN NoneDf
         ELSE IF EndsWith(LowerText(target.name), EXT_CSV)
              THEN ReadCsv(response.files[target.name])
              ELSE ReadExcel(response.files[target.name])

\* an entry forgotten after half its time to live
FreshHalfTtl(cache, key, t, ttl) == key \in DOMAIN cache /\ 2 * (t - cache[key].at) < ttl

\* st.cache_data(ttl=...): the entry of the key is younger than ttl seconds
Fresh(cache, key, t, ttl) == key \in DOMAIN cache /\ t - cache[key].at < ttl

Store(cache, key, value, t) ==
    (key :> [value |-> value, at |-> t]) @@ cache

\* a call of the cached function: [value, requested, cache]
_fetch_zip_df(url, hint, cache, net, t) ==
    LET key == <<url, hint>> IN
    IF Fresh(cache, key, t, FETCH_TTL)
    THEN [value |-> cache[key].value, requested |-> FALSE, cache |-> cache]
    ELSE Bind(FetchBody(net[url], hint), LAMBDA value :
            [value |-> value, requested |-> TRUE,
             cache |-> Store(cache, key, value, t)])

(***************************************************************************)
(* _load_one_cpsc: [value, source, requested, cache]                       *)
(***************************************************************************)
\* a loader asking the remote source first and reading the local file only
\* when the fetch gives nothing
_load_one_cpsc_remote_first(store, yr, mo, cache, net, t) ==
    Bind(_fetch_zip_df(cpsc_url(yr, mo), HINT_CPSC, cache, net, t), LAMBDA fetched :
    Bind(_local_cpsc_path(store, yr, mo), LAMBDA local :
        IF fetched.value.ok \/ local = NoPath
        THEN [value |-> fetched.value, source |-> "live",
              requested |-> fetched.requested, cache |-> fetched.cache]
        ELSE [value |-> _read_local_file(store, local), source |-> "local",
              requested |-> fetched.requested, cache |-> fetched.cache]))

_load_one_cpsc(store, yr, mo, cache, net, t) ==
    Bind(_local_cpsc_path(store, yr, mo), LAMBDA local :
    Bind(IF local # NoPath THEN _read_local_file(store, local) ELSE NoneDf, LAMBDA df :
        IF local # NoPath /\ df.ok /\ Len(df.df.rows) > MIN_ROWS
        THEN [value |-> df, source |-> "local", requested |-> FALSE, cache |-> cache]
        ELSE Bind(_fetch_zip_df(cpsc_url(yr, mo), HINT_CPSC, cache, net, t),
                  LAMBDA fetched :
                     [value |-> fetched.value, source |-> "live",
                      requested |-> fetched.requested, cache |-> fetched.cache])))

(***************************************************************************)
(* load_enrollment                                                         *)
(***************************************************************************)
NoResult == [df |-> [cols |-> <<>>, rows |-> <<>>], attrs |-> EmptyMap, set |-> FALSE]

\* lines 496-501: the columns missing from a frame are created, then the
\* canonical list is selected
RECURSIVE FillMissing(_, _)
FillMissing(frame, all_cols) ==
    IF all_cols = <<>> THEN frame
    ELSE Bind(frame, LAMBDA f :
            FillMissing(
               IF HasCol(f, Head(all_cols)) THEN f
               ELSE IF Head(all_cols) = Enrollment
                    THEN SetCol(f, Head(all_cols), LAMBDA row : 0)
                    ELSE SetCol(f, Head(all_cols), EmptyText),
               Tail(all_cols)))

AlignFrame(f) == Select(FillMissing(f, CPSC_OUTPUT_COLS), CPSC_OUTPUT_COLS)

RECURSIVE ConcatRows(_)
ConcatRows(fs) ==
    IF fs = <<>> THEN <<>> ELSE Head(fs).rows \o ConcatRows(Tail(fs))

\* pd.concat(aligned, ignore_index=True) of frames with one column list;
\* it raises when the lists differ and one of them repeats a label
Concat(fs) ==
    IF \A k \in DOMAIN fs : fs[k].cols = fs[1].cols
    THEN Ok([cols |-> fs[1].cols, rows |-> ConcatRows(fs)])
    ELSE Raised

\* a lookup answering 1 for a name the attributes do not hold
AttrGetDefaultOne(res, name) == IF name \in DOMAIN res.attrs THEN res.attrs[name] ELSE 1

\* enroll_df.attrs.get(name, 0)
AttrGet(res, name) == IF name \in DOMAIN res.attrs THEN res.attrs[name] ELSE 0

\* what is remembered of a run of the body: its argument, when and after how
\* many cache clearings it returned, its number and the value returned
Answer(ms, t, e, b, value) ==
    [months |-> ms, at |-> t, epoch |-> e, build |-> b, value |-> value]

\* the entries of a log written by the b-th run of a body
MadeBy(log, b) == {k \in DOMAIN log : log[k].build = b}

\* the call finds its result in the cache
LoadEnrollmentCached(n) ==
    LET ms == rolling_months(n, today) IN
    /\ pc = "idle"
    /\ Fresh(enroll_cache, ms, now, ENROLL_TTL)
    /\ pc' = "returned"
    /\ months' = ms
    /\ result' = enroll_cache[ms].value
    /\ UNCHANGED <<requests, i, frames, sources, local_count, live_count, aligned,
                   build, request_log, reads, served, dir_served, plan_df>>
    /\ UNCHANGED <<pureVars, envVars, cacheVars>>

\* lines 462-465: the body starts
LoadEnrollmentStart(n) ==
    LET ms == rolling_months(n, today) IN
    /\ pc = "idle"
    /\ ~Fresh(enroll_cache, ms, now, ENROLL_TTL)
    /\ pc' = "loop"
    /\ months' = ms
    /\ i' = 0
    /\ frames' = <<>>
    /\ sources' = <<>>
    /\ local_count' = 0
    /\ live_count' = 0
    /\ aligned' = <<>>
    /\ result' = NoResult
    /\ build' = build + 1
    /\ UNCHANGED <<requests, request_log, reads, served, dir_served, plan_df>>
    /\ UNCHANGED <<pureVars, envVars, cacheVars>>

\* lines 476-487: the frame of a period joins the list unless normalisation
\* raised or left a repeated column
Accepted(normed) == normed.ok /\ ~HasDuplicates(normed.df.cols)

\* a loop in which a failing period also discards the frames loaded before it
AppendOrDiscard(fs, normed) ==
    IF Accepted(normed) THEN Append(fs, normed.df) ELSE <<>>

AppendAccepted(fs, normed) ==
    IF Accepted(normed) THEN Append(fs, normed.df) ELSE fs

\* a loader that asks the remote source a second time when the first answer
\* gives no table
RequestsWithRetry(raw, url) ==
    IF ~raw.requested THEN <<>>
    ELSE IF raw.value.ok THEN <<url>> ELSE <<url, url>>

\* line 457: the requests one call of _load_one_cpsc sends, one when the
\* body of _fetch_zip_df runs and none otherwise
RequestsOf(raw, url) == IF raw.requested THEN <<url>> ELSE <<>>

\* lines 467-487: one turn of the loop
LoadPeriod ==
    /\ pc = "loop"
    /\ i < Len(months)
    /\ \E yr \in {months[i + 1].yr}, mo \in {months[i + 1].mo} :
       \E local_path \in {_local_cpsc_path(local_store, yr, mo)},
          raw \in {_load_one_cpsc(local_store, yr, mo, fetch_cache, remote, now)} :
       \E normed \in {IF raw.value.ok /\ Len(raw.value.df.rows) > MIN_ROWS
                       THEN normalise_cpsc(raw.value.df, yr, mo)
                       ELSE Raised} :
       \E accepted \in {Accepted(normed)},
          asked \in {RequestsOf(raw, cpsc_url(yr, mo))} :
           /\ i' = i + 1
           /\ fetch_cache' = raw.cache
           /\ requests' = requests \o asked
           /\ request_log' = request_log \o
                                [k \in DOMAIN asked |->
                                    [at |-> now, epoch |-> epoch, build |-> build]]
           /\ reads' = IF local_path # NoPath
                       THEN Append(reads, [path |-> local_path, build |-> build])
                       ELSE reads
           /\ frames' = AppendAccepted(frames, normed)
           /\ sources' = IF accepted
                         THEN Append(sources, [yr |-> yr, mo |-> mo, from |-> raw.source])
                         ELSE sources
           /\ local_count' = IF accepted /\ local_path # NoPath
                             THEN local_count + 1 ELSE local_count
           /\ live_count' = IF accepted /\ local_path = NoPath
                            THEN live_count + 1 ELSE live_count
    /\ UNCHANGED <<pc, months, aligned, result, now, enroll_cache, epoch,
                   plandir_cache, build, served, dir_served, plan_df>>
    /\ UNCHANGED <<pureVars, envVars>>

\* lines 489-491: no frame was accepted
LoadEnrollmentEmpty ==
    /\ pc = "loop"
    /\ i = Len(months)
    /\ frames = <<>>
    /\ pc' = "returned"
    /\ result' = [df |-> [cols |-> <<>>, rows |-> <<>>], attrs |-> EmptyMap,
                  set |-> TRUE]
    /\ enroll_cache' = Store(enroll_cache, months, result', now)
    /\ served' = served \cup {Answer(months, now, epoch, build, result')}
    /\ UNCHANGED <<requests, months, i, frames, sources, local_count, live_count,
                   aligned, now, fetch_cache, epoch, plandir_cache, build,
                   request_log, reads, dir_served, plan_df>>
    /\ UNCHANGED <<pureVars, envVars>>

\* lines 493-507
LoadEnrollmentConcat ==
    /\ pc = "loop"
    /\ i = Len(months)
    /\ frames # <<>>
    /\ aligned' = [k \in DOMAIN frames |-> AlignFrame(frames[k])]
    /\ \E joined \in {Concat(aligned')} :
        /\ pc' = IF joined.ok THEN "returned" ELSE "raised"
        /\ result' = IF joined.ok
                     THEN [df |-> joined.df,
                           attrs |-> ("local_count" :> local_count)
                                     @@ ("live_count" :> live_count),
                           set |-> TRUE]
                     ELSE result
        /\ enroll_cache' = IF joined.ok
                           THEN Store(enroll_cache, months, result', now)
                           ELSE enroll_cache
        /\ served' = IF joined.ok
                     THEN served \cup {Answer(months, now, epoch, build, result')}
                     ELSE served
    /\ UNCHANGED <<requests, months, i, frames, sources, local_count, live_count,
                   now, fetch_cache, epoch, plandir_cache, build, request_log,
                   reads, dir_served, plan_df>>
    /\ UNCHANGED <<pureVars, envVars>>

\* main is run again by the framework: the same window is asked for once more
Rerun ==
    /\ pc = "returned"
    /\ pc' = "idle"
    /\ UNCHANGED <<requests, months, i, frames, sources, local_count, live_count,
                   aligned, result, build, request_log, reads, served, dir_served, plan_df>>
    /\ UNCHANGED <<pureVars, envVars, cacheVars>>

\* the state before any call of load_enrollment, nothing stored or cached
LoaderIdle ==
    /\ local_store = EmptyMap
    /\ remote = EmptyMap
    /\ now = 0
    /\ fetch_cache = EmptyMap
    /\ enroll_cache = EmptyMap
    /\ requests = <<>>
    /\ pc = "idle"
    /\ months = <<>>
    /\ i = 0
    /\ frames = <<>>
    /\ sources = <<>>
    /\ local_count = 0
    /\ live_count = 0
    /\ aligned = <<>>
    /\ result = NoResult
    /\ epoch = 0
    /\ plandir_cache = EmptyMap
    /\ build = 0
    /\ request_log = <<>>
    /\ reads = <<>>
    /\ served = {}
    /\ dir_served = {}
    /\ plan_df = NoResult

MachineIdle ==
    /\ today = [year |-> 2024, month |-> 2]
    /\ LoaderIdle

(***************************************************************************)
(* Headers drawn for the normaliser                                        *)
(***************************************************************************)
HeaderLabels ==
    { <<"Plan ID">>, <<"plan_identifier">>, <<"Plan_ID">>,
      <<"contract number">>, <<"h_number">>, <<"Contract_ID">>,
      <<"Contract_ID", "_2">>,
      <<"x">>, <<"x", "_dup2">>, <<"x", "_dup2", "_2">>,
      <<" ", "Plan ID">>, <<"Plan ID", "_dup2">> }

AliasMaps == {"cpsc", "plandir"}
MapOf(name) == IF name = "cpsc" THEN CPSC_COL_ALIASES ELSE PLANDIR_COL_ALIASES

(***************************************************************************)
(* Specification SpecNorm: _normalise_cols applied once, then applied to   *)
(* its own result.                                                         *)
(***************************************************************************)
InitNorm ==
    /\ MachineIdle
    /\ input \in [columns : SeqsUpTo(HeaderLabels, MaxCols), alias : AliasMaps]
    /\ calls = <<>>

CallNormalise ==
    /\ calls = <<>>
    /\ calls' = <<[fn |-> "_normalise_cols", arg |-> input.columns,
                   ret |-> _normalise_cols(input.columns, MapOf(input.alias))]>>
    /\ UNCHANGED <<input, envVars, cacheVars, loadVars>>

CallNormaliseAgain ==
    /\ Len(calls) = 1
    /\ calls' = Append(calls,
                  [fn |-> "_normalise_cols", arg |-> calls[1].ret,
                   ret |-> _normalise_cols(calls[1].ret, MapOf(input.alias))])
    /\ UNCHANGED <<input, envVars, cacheVars, loadVars>>

NextNorm == CallNormalise \/ CallNormaliseAgain

SpecNorm == InitNorm /\ [][NextNorm]_vars

\* C1: the labels returned by _normalise_cols are pairwise distinct.
C1_ColumnsUnique ==
    \A k \in DOMAIN calls : ~HasDuplicates(calls[k].ret)

\* C4: a second application of _normalise_cols leaves the labels of the first
\* application unchanged, position by position.
C4_Idempotent ==
    Len(calls) = 2 => calls[2].ret = calls[1].ret


(***************************************************************************)
(* Specification SpecClean: _clean_enrollment applied to a table with a    *)
(* row-number column and an Enrollment column.                             *)
(***************************************************************************)
CleanAlphabet == {"0", "1", ",", "*", " ", "-", ".", "a"}

SampleTexts ==
    { <<"1", ",", "2", "3", "4">>, <<"*">>, <<"a", "b", "c">>, <<"0">>,
      <<"-", "5">>, <<"7">> }

FreeTexts == SeqsUpTo(CleanAlphabet, MaxTextLen)

\* the first row takes any text up to MaxTextLen, the others a sample text
EnrollmentTexts ==
    {t \in SeqsUpTo(FreeTexts \cup SampleTexts, MaxCleanRows) :
        /\ Len(t) >= 1
        /\ \A r \in DOMAIN t : r > 1 => t[r] \in SampleTexts}

CleanTable(texts) ==
    [cols |-> << <<"row">>, Enrollment >>,
     rows |-> [r \in DOMAIN texts |-> <<DecStr(r), texts[r]>>]]

InitClean ==
    /\ MachineIdle
    /\ input \in {CleanTable(t) : t \in EnrollmentTexts}
    /\ calls = <<>>

CallClean ==
    /\ calls = <<>>
    /\ calls' = <<[fn |-> "_clean_enrollment", arg |-> input,
                   ret |-> _clean_enrollment(input)]>>
    /\ UNCHANGED <<input, envVars, cacheVars, loadVars>>

NextClean == CallClean

SpecClean == InitClean /\ [][NextClean]_vars

\* an optional "-" followed by digits only
IsIntegerText(text) ==
    LET body == IF text # <<>> /\ Head(text) = "-" THEN Tail(text) ELSE text
    IN  body # <<>> /\ AllDigits(body)

\* the integer the raw text stands for once thousands separators and
\* surrounding blanks are removed; 0 when it is no integer
StatedValue(text) ==
    LET t == StripText(ReplaceChar(text, ",", <<>>))
    IN  IF IsIntegerText(t) THEN ToInt(t) ELSE 0

\* C5: _clean_enrollment keeps exactly the rows whose raw text, without
\* thousands separators and surrounding blanks, is an integer greater than 0,
\* with that integer as Enrollment, in their original order.
C5_KeepsExactlyPositive ==
    \A k \in DOMAIN calls :
        LET raw == calls[k].arg.rows
            kept == {r \in DOMAIN raw : StatedValue(raw[r][2]) > 0}
            expected == [r \in DOMAIN raw |-> <<raw[r][1], StatedValue(raw[r][2])>>]
        IN  /\ calls[k].ret.ok
            /\ calls[k].ret.df.rows = FilterRows(expected, kept)

(***************************************************************************)
(* Specification SpecCpsc: normalise_cpsc applied to one raw table.        *)
(***************************************************************************)
CpscLabels ==
    { <<"Plan ID">>, <<"plan_identifier">>, <<"Plan_ID">>,
      <<"contract number">>, <<"Contract_ID">>,
      <<"Enrollment">>, <<"ssa_state_county_code">> }

InitCpsc ==
    /\ MachineIdle
    /\ input \in {GridTable(h, CpscRows, m) :
                    h \in SeqsUpTo(CpscLabels, MaxCpscCols), m \in SUBSET {1}}
    /\ calls = <<>>

CallNormaliseCpsc ==
    /\ calls = <<>>
    /\ \E yr \in {2024}, mo \in {3} :
        calls' = <<[fn |-> "normalise_cpsc", arg |-> input,
                    ret |-> normalise_cpsc(input, yr, mo)]>>
    /\ UNCHANGED <<input, envVars, cacheVars, loadVars>>

NextCpsc == CallNormaliseCpsc

SpecCpsc == InitCpsc /\ [][NextCpsc]_vars


AliasedFields ==
    {"Contract_ID", "Plan_ID", "Segment_ID", "Org_Name", "State", "County",
     "Plan_Type", "Enrollment"}

\* the raw columns that resolve to target t through the alias map
Resolvers(cols, t) ==
    LET deduped == _dedup_columns(cols)
    IN  {k \in DOMAIN cols : AliasTarget(CPSC_COL_ALIASES, deduped[k]) = t}

\* the raw columns already named t itself
Literals(cols, t) ==
    LET deduped == _dedup_columns(cols)
    IN  {k \in DOMAIN cols : deduped[k] = <<t>>}

\* field t of the output holds, in every row, the cell of raw column k of
\* some raw row (coerced to a number for Enrollment)
SuppliedBy(call, t, k) ==
    LET out == call.ret.df
        at == Positions(out.cols, <<t>>)
    IN  /\ Cardinality(at) = 1
        /\ \A o \in DOMAIN out.rows : \E r \in DOMAIN call.arg.rows :
              out.rows[o][MinIndex(at)] =
                 IF t = "Enrollment" THEN CoerceEnrollment(call.arg.rows[r][k])
                 ELSE call.arg.rows[r][k]

IsCanonical(label) == \E k \in DOMAIN CPSC_OUTPUT_COLS : CPSC_OUTPUT_COLS[k] = label

MemberNames ==
    { <<"p", ".", "c", "s", "v">>,
      <<"P", ".", "X", "L", "S", "X">>,
      <<"b", ".", "c", "s", "v">>,
      <<"b", ".", "x", "l", "s">>,
      <<".", "p", ".", "c", "s", "v">>,
      <<"_", "_", "M", "A", "C", "O", "S", "X", "/", "p", ".", "c", "s", "v">>,
      <<"p", ".", "t", "x", "t">>,
      <<".", "b", ".", "x", "l", "s", "x">>,
      <<"b", ".", "C", "S", "V">> }

Hints == { <<>>, <<"p">>, <<"P">> }

InitPick ==
    /\ MachineIdle
    /\ input \in [names : SeqsUpTo(MemberNames, MaxNames), hint : Hints]
    /\ calls = <<>>

CallPickFile ==
    /\ calls = <<>>
    /\ calls' = <<[fn |-> "_pick_file", arg |-> input,
                   ret |-> _pick_file(input.names, input.hint)]>>
    /\ UNCHANGED <<input, envVars, cacheVars, loadVars>>

NextPick == CallPickFile

SpecPick == InitPick /\ [][NextPick]_vars

\* the first name of the list with property test, as a set of at most one name
FirstOf(names, test(_)) ==
    {names[k] : k \in {j \in DOMAIN names :
                          test(names[j]) /\ \A h \in 1..(j - 1) : ~test(names[h])}}

HasExt(n) == EndsCsv(n) \/ EndsSheet(n)
MentionsHint(n, hint) == Contains(LowerText(n), LowerText(hint))
Hidden(n) == Contains(n, MACOSX) \/ (n # <<>> /\ Head(n) = ".")

\* the set holding the name the stated priority picks, empty when none
StatedPick(names, hint, useHint) ==
    LET a == IF useHint
             THEN FirstOf(names, LAMBDA n : MentionsHint(n, hint) /\ HasExt(n))
             ELSE {}
        b == FirstOf(names, LAMBDA n : ~Hidden(n) /\ EndsCsv(n))
        c == FirstOf(names, LAMBDA n : ~Hidden(n) /\ EndsSheet(n))
    IN  IF a # {} THEN a ELSE IF b # {} THEN b ELSE c

Picked(call) == IF call.ret.found THEN {call.ret.name} ELSE {}

\* C10 as stated: for every name list and hint, _pick_file returns (a) the
\* first name containing the hint with a table extension, else (b) the first
\* non-hidden .csv, else (c) the first non-hidden spreadsheet, and nothing
\* exactly when none of them exists.
C10_PickAnyHint ==
    \A k \in DOMAIN calls :
        Picked(calls[k]) = StatedPick(calls[k].arg.names, calls[k].arg.hint, TRUE)

\* C10 amended: rule (a) applies only to a non-empty hint; with an empty hint
\* the choice starts at rule (b).
C10_PickPriority ==
    \A k \in DOMAIN calls :
        Picked(calls[k]) = StatedPick(calls[k].arg.names, calls[k].arg.hint,
                                      calls[k].arg.hint # <<>>)

\* C10 witness: a hidden name carrying the hint is returned by rule (a)
\* although a non-hidden .csv precedes it.
C10_Witness ==
    /\ Len(calls) = 1
    /\ input.hint = <<"P">>
    /\ Len(input.names) >= 2
    /\ input.names[1] = <<"b", ".", "c", "s", "v">>
    /\ input.names[2] = <<".", "p", ".", "c", "s", "v">>
    /\ calls[1].ret.found
    /\ calls[1].ret.name = <<".", "p", ".", "c", "s", "v">>


(***************************************************************************)
(* Specification SpecLoad: one cold call of load_enrollment, for every     *)
(* combination of local files and remote responses of the listed periods.  *)
(***************************************************************************)
HEADER_PLAIN == << <<"contract number">>, <<"Plan ID">>, <<"Enrollment">> >>
HEADER_COLLIDING == << <<"Plan ID">>, <<"Plan_ID">>, <<"enrolled">>, <<"Contract_ID">>,
                       <<"contract number">> >>
HEADER_SSA == << <<"ssa_state_county_code">>, <<"Enrollment">>, <<"x">> >>
HEADER_RAISING == << <<"Enrollees", "_dup2", "_2">>, <<"Enrollees">>, <<"Enrollees">>,
                     <<"Enrollees", "_dup2">> >>

Table(df) == [kind |-> "table", df |-> df]
Garbage == [kind |-> "garbage"]

CSV == <<".", "c", "s", "v">>
XLSX == <<".", "x", "l", "s", "x">>

\* what the local store may hold for one period: extension -> content
NO_LOCAL == EmptyMap
LOCAL_UNDECODABLE ==
    (CSV :> Garbage) @@ (XLSX :> Table(GridTable(HEADER_PLAIN, MIN_ROWS + 1, {2})))
LOCAL_SHORT == CSV :> Table(GridTable(HEADER_PLAIN, MIN_ROWS, {2}))
LOCAL_GOOD == CSV :> Table(GridTable(HEADER_PLAIN, MIN_ROWS + 1, {2}))
LOCAL_COLLIDING == XLSX :> Table(GridTable(HEADER_COLLIDING, MIN_ROWS + 1, {2}))

CPSC_CSV == <<"c", "p", "s", "c", ".", "c", "s", "v">>
README == <<"r", "e", "a", "d", "m", "e", ".", "t", "x", "t">>

Archive(content) ==
    [status |-> HTTP_OK, zip_ok |-> TRUE, names |-> <<README, CPSC_CSV>>,
     files |-> (README :> Garbage) @@ (CPSC_CSV :> content)]

\* what the remote source may answer for one period
NOT_FOUND == [status |-> 404, zip_ok |-> FALSE, names |-> <<>>, files |-> EmptyMap]
BAD_ZIP == [status |-> HTTP_OK, zip_ok |-> FALSE, names |-> <<>>, files |-> EmptyMap]
NO_MEMBER ==
    [status |-> HTTP_OK, zip_ok |-> TRUE, names |-> <<README>>,
     files |-> (README :> Garbage)]
REMOTE_UNDECODABLE == Archive(Garbage)
REMOTE_SHORT == Archive(Table(GridTable(HEADER_SSA, MIN_ROWS, {3})))
REMOTE_GOOD == Archive(Table(GridTable(HEADER_SSA, MIN_ROWS + 1, {3})))
REMOTE_MASKED == Archive(Table(GridTable(HEADER_PLAIN, MIN_ROWS + 1, 1..(MIN_ROWS + 1))))
REMOTE_RAISING == Archive(Table(GridTable(HEADER_RAISING, MIN_ROWS + 1, {3})))

\* the situations of one period: what is stored locally and what the remote
\* source answers
Scenarios ==
    { [local |-> NO_LOCAL, remote |-> NOT_FOUND],
      [local |-> NO_LOCAL, remote |-> BAD_ZIP],
      [local |-> NO_LOCAL, remote |-> NO_MEMBER],
      [local |-> NO_LOCAL, remote |-> REMOTE_UNDECODABLE],
      [local |-> NO_LOCAL, remote |-> REMOTE_SHORT],
      [local |-> NO_LOCAL, remote |-> REMOTE_GOOD],
      [local |-> NO_LOCAL, remote |-> REMOTE_MASKED],
      [local |-> NO_LOCAL, remote |-> REMOTE_RAISING],
      [local |-> LOCAL_GOOD, remote |-> NOT_FOUND],
      [local |-> LOCAL_GOOD, remote |-> REMOTE_GOOD],
      [local |-> LOCAL_SHORT, remote |-> NOT_FOUND],
      [local |-> LOCAL_SHORT, remote |-> REMOTE_GOOD],
      [local |-> LOCAL_UNDECODABLE, remote |-> REMOTE_GOOD],
      [local |-> LOCAL_COLLIDING, remote |-> REMOTE_GOOD] }

\* the store holding, for each listed period, the files chosen for it
StoreOf(ms, choice) ==
    LET paths == {<<k, e>> \in (DOMAIN ms) \X Range(EXTENSIONS) : e \in DOMAIN choice[k]}
        PathOf(ke) == CpscPath(ms[ke[1]].yr, ms[ke[1]].mo, ke[2])
    IN  [p \in {PathOf(ke) : ke \in paths} |->
            LET ke == CHOOSE x \in paths : PathOf(x) = p IN choice[ke[1]][ke[2]]]

RemoteOf(ms, choice) ==
    [u \in {cpsc_url(ms[k].yr, ms[k].mo) : k \in DOMAIN ms} |->
        choice[CHOOSE k \in DOMAIN ms : cpsc_url(ms[k].yr, ms[k].mo) = u]]

InitLoad ==
    /\ input = <<>>
    /\ calls = <<>>
    /\ today = [year |-> 2024, month |-> 2]
    /\ \E n \in 0..MaxPeriods :
         LET ms == rolling_months(n, today) IN
         \E sc \in [1..n -> Scenarios] :
            /\ local_store = StoreOf(ms, [k \in 1..n |-> sc[k].local])
            /\ remote = RemoteOf(ms, [k \in 1..n |-> sc[k].remote])
    /\ now = 0
    /\ fetch_cache = EmptyMap
    /\ enroll_cache = EmptyMap
    /\ requests = <<>>
    /\ pc = "idle"
    /\ months = <<>>
    /\ i = 0
    /\ frames = <<>>
    /\ sources = <<>>
    /\ local_count = 0
    /\ live_count = 0
    /\ aligned = <<>>
    /\ result = NoResult
    /\ epoch = 0
    /\ plandir_cache = EmptyMap
    /\ build = 0
    /\ request_log = <<>>
    /\ reads = <<>>
    /\ served = {}
    /\ dir_served = {}
    /\ plan_df = NoResult

\* main, line 935: the window the environment was drawn for is requested
CallLoadEnrollment ==
    \E n \in 0..MaxPeriods :
        /\ \A k \in 1..n : cpsc_url(rolling_months(n, today)[k].yr,
                                    rolling_months(n, today)[k].mo) \in DOMAIN remote
        /\ Cardinality(DOMAIN remote) = n
        /\ LoadEnrollmentStart(n)

\* the same call while its result is still cached
CallLoadEnrollmentAgain ==
    \E n \in 0..MaxPeriods :
        /\ \A k \in 1..n : cpsc_url(rolling_months(n, today)[k].yr,
                                    rolling_months(n, today)[k].mo) \in DOMAIN remote
        /\ Cardinality(DOMAIN remote) = n
        /\ LoadEnrollmentCached(n)

NextLoad ==
    \/ CallLoadEnrollment
    \/ CallLoadEnrollmentAgain
    \/ Rerun
    \/ LoadPeriod
    \/ LoadEnrollmentEmpty
    \/ LoadEnrollmentConcat

SpecLoad == InitLoad /\ [][NextLoad]_vars

(***************************************************************************)
(* What the environment offers for one period, read off the store and the  *)
(* remote answers                                                          *)
(***************************************************************************)
EMPTY_FRAME == [cols |-> <<>>, rows |-> <<>>]

\* the content of the local file of the period; Garbage when there is none
LocalContent(yr, mo) ==
    IF _local_cpsc_path(local_store, yr, mo) = NoPath THEN Garbage
    ELSE local_store[_local_cpsc_path(local_store, yr, mo)]

\* the content of the member chosen in the archive the remote source answers
\* with; Garbage when the answer is no success, no archive or has no member
RemoteContent(yr, mo) ==
    LET resp == remote[cpsc_url(yr, mo)]
        member == _pick_file(resp.names, HINT_CPSC)
    IN  IF resp.status = 200 /\ resp.zip_ok /\ member.found
        THEN resp.files[member.name] ELSE Garbage

\* the content decodes to a table of more than 10 rows
Usable(content) == content.kind = "table" /\ Len(content.df.rows) > 10

LocalUsable(yr, mo) == Usable(LocalContent(yr, mo))

\* the table the period is to be built from
OfferedContent(yr, mo) ==
    IF LocalUsable(yr, mo) THEN LocalContent(yr, mo) ELSE RemoteContent(yr, mo)

\* the frame of a period, Raised when the period fails
OfferedFrame(yr, mo) ==
    Bind(OfferedContent(yr, mo), LAMBDA content :
        IF ~Usable(content) THEN Raised
        ELSE Bind(normalise_cpsc(content.df, yr, mo), LAMBDA normed :
                IF normed.ok /\ ~HasDuplicates(normed.df.cols) THEN normed ELSE Raised))

PeriodFails(yr, mo) == ~OfferedFrame(yr, mo).ok

RECURSIVE SurvivingRows(_)
SurvivingRows(ms) ==
    IF ms = <<>> THEN <<>>
    ELSE Bind(OfferedFrame(Head(ms).yr, Head(ms).mo), LAMBDA f :
            (IF f.ok THEN f.df.rows ELSE <<>>) \o SurvivingRows(Tail(ms)))

\* the canonical field is supplied by no column of the period's raw table
NotSupplied(yr, mo, c) ==
    LET raw == OfferedContent(yr, mo).df.cols
        named == _normalise_cols(raw, CPSC_COL_ALIASES)
    IN  /\ c \notin Range(named)
        /\ c \notin {<<"Year">>, <<"Month">>, <<"Period">>, <<"Period_Label">>}
        /\ c = <<"State">> => <<"SSA_Code">> \notin Range(named)
        /\ c = Enrollment => \A k \in DOMAIN named : ~ContainsEnroll(named[k])

TWELVE_COLUMNS ==
    << <<"Contract_ID">>, <<"Plan_ID">>, <<"Segment_ID">>, <<"Org_Name">>,
       <<"State">>, <<"County">>, <<"Plan_Type">>, <<"Enrollment">>,
       <<"Year">>, <<"Month">>, <<"Period">>, <<"Period_Label">> >>

\* C2: a non-empty result of load_enrollment has exactly the 12 canonical
\* columns, each once and in the fixed order; every frame handed to the
\* concatenation has that same column list; and a canonical column that the
\* raw table of a period did not supply holds 0 (Enrollment) or the empty
\* string (any other field) in every row of that period's frame.
C2_CanonicalColumns ==
    (pc = "returned" /\ frames # <<>>) =>
        /\ result.df.cols = TWELVE_COLUMNS
        /\ \A k \in DOMAIN aligned :
              /\ aligned[k].cols = TWELVE_COLUMNS
              /\ \A c \in DOMAIN TWELVE_COLUMNS :
                    NotSupplied(sources[k].yr, sources[k].mo, TWELVE_COLUMNS[c]) =>
                        \A r \in DOMAIN aligned[k].rows :
                            aligned[k].rows[r][c] =
                                IF TWELVE_COLUMNS[c] = <<"Enrollment">> THEN 0 ELSE <<>>
        /\ \A r \in DOMAIN result.df.rows : Len(result.df.rows[r]) = 12

\* a result joined from a local table in which two headers resolve to the
\* plan identifier and a fetched
\* table that lacks the contract field
C2_Witness ==
    /\ pc = "returned"
    /\ Len(aligned) >= 2
    /\ \E k \in DOMAIN aligned :
          /\ sources[k].from = "local"
          /\ <<"Plan_ID", "_2">> \in
                Range(_normalise_cols(LocalContent(sources[k].yr, sources[k].mo).df.cols,
                                      CPSC_COL_ALIASES))
          /\ aligned[k].rows # <<>>
    /\ \E k \in DOMAIN aligned :
          /\ NotSupplied(sources[k].yr, sources[k].mo, <<"Contract_ID">>)
          /\ aligned[k].rows # <<>>
          /\ aligned[k].rows[1][1] = <<>>

\* C6: when every period of the list fails to load, or the list is empty,
\* load_enrollment raises nothing and returns the empty table, and the local
\* and live counts read from that result are both zero.
C6_EmptyWindow ==
    (pc \in {"returned", "raised"} /\ \A k \in DOMAIN months :
                                          PeriodFails(months[k].yr, months[k].mo)) =>
        /\ pc = "returned"
        /\ result.set
        /\ result.df = EMPTY_FRAME
        /\ AttrGet(result, "local_count") = 0
        /\ AttrGet(result, "live_count") = 0

\* a window of two periods or more, all failing, one of them with a local
\* file and one after a remote request
C6_Witness ==
    /\ pc = "returned"
    /\ Len(months) >= 2
    /\ \A k \in DOMAIN months : PeriodFails(months[k].yr, months[k].mo)
    /\ \E k \in DOMAIN months :
          _local_cpsc_path(local_store, months[k].yr, months[k].mo) # NoPath
    /\ requests # <<>>
    /\ result.df = EMPTY_FRAME

\* C7: a failing period only removes itself: the call raises nothing, every
\* period of the list is processed, and the result holds exactly the rows of
\* the periods that did not fail, in the order of the list.
C7_OnlyFailedPeriodsDropped ==
    /\ pc # "raised"
    /\ pc = "loop" =>
          Len(frames) = Cardinality({k \in 1..i :
                                       ~PeriodFails(months[k].yr, months[k].mo)})
    /\ pc = "returned" =>
          /\ i = Len(months)
          /\ result.df.rows = SurvivingRows(months)

\* a window whose first period loads and whose second fails, with the rows
\* of the first returned
C7_Witness ==
    /\ pc = "returned"
    /\ Len(months) >= 2
    /\ ~PeriodFails(months[1].yr, months[1].mo)
    /\ PeriodFails(months[2].yr, months[2].mo)
    /\ result.df.rows # <<>>
    /\ result.df.rows = SurvivingRows(months)

\* C8: the counts record where the rows of each accepted period came from:
\* local_count is the number of accepted periods read from the local file
\* and live_count the number of accepted periods obtained by a remote fetch.
C8_CountsMatchSources ==
    /\ local_count = Cardinality({k \in DOMAIN sources : sources[k].from = "local"})
    /\ live_count = Cardinality({k \in DOMAIN sources : sources[k].from = "live"})

\* C9: a remote request is issued for a period only when it has no local
\* file, or the file does not decode, or it decodes to 10 rows or fewer; a
\* period whose local file decodes to more than 10 rows causes no request
\* and _load_one_cpsc returns the local table.
C9_LocalBeforeRemote ==
    /\ \A u \in Range(requests) :
          \E k \in 1..i : /\ cpsc_url(months[k].yr, months[k].mo) = u
                          /\ ~LocalUsable(months[k].yr, months[k].mo)
    /\ \A k \in DOMAIN months :
          LocalUsable(months[k].yr, months[k].mo) =>
              LET one == _load_one_cpsc(local_store, months[k].yr, months[k].mo,
                                        fetch_cache, remote, now)
              IN  /\ ~one.requested
                  /\ one.value = Ok(LocalContent(months[k].yr, months[k].mo).df)
                  /\ one.cache = fetch_cache
    /\ \A k \in DOMAIN sources :
          LocalUsable(sources[k].yr, sources[k].mo) => sources[k].from = "local"

\* a finished call in which one period was served by its local file although
\* the remote source had an archive for it, and another needed a request
C9_Witness ==
    /\ pc = "returned"
    /\ requests # <<>>
    /\ \E k \in DOMAIN sources :
          /\ sources[k].from = "local"
          /\ LocalUsable(sources[k].yr, sources[k].mo)
          /\ Usable(RemoteContent(sources[k].yr, sources[k].mo))
          /\ \A r \in DOMAIN requests :
                requests[r] # cpsc_url(sources[k].yr, sources[k].mo)

(***************************************************************************)
(* Specification SpecMonths: rolling_months on every month of two years    *)
(***************************************************************************)
Years == {2023, 2024}

InitMonths ==
    /\ LoaderIdle
    /\ today \in [year : Years, month : 1..12]
    /\ input \in [n : 1..MaxWindow]
    /\ calls = <<>>

CallRollingMonths ==
    /\ calls = <<>>
    /\ calls' = <<[fn |-> "rolling_months", arg |-> input,
                   ret |-> rolling_months(input.n, today)]>>
    /\ UNCHANGED <<input, envVars, cacheVars, loadVars>>

NextMonths == CallRollingMonths

SpecMonths == InitMonths /\ [][NextMonths]_vars

\* the calendar month before (yr, mo)
PreviousMonth(p) ==
    IF p.mo = 1 THEN [yr |-> p.yr - 1, mo |-> 12] ELSE [yr |-> p.yr, mo |-> p.mo - 1]

\* C18: rolling_months(n) returns n pairwise-distinct (year, month) pairs with
\* month in 1..12; the first is the month two months before the current one
\* and each following pair is the calendar month before its predecessor, the
\* year going down by one when the month wraps from 1 to 12.
C18_RollingWindow ==
    \A c \in DOMAIN calls :
        LET ret == calls[c].ret IN
        /\ Len(ret) = calls[c].arg.n
        /\ \A k \in DOMAIN ret : ret[k].mo \in 1..12
        /\ \A j, k \in DOMAIN ret : j # k => ret[j] # ret[k]
        /\ ret[1] = PreviousMonth(PreviousMonth([yr |-> today.year, mo |-> today.month]))
        /\ \A k \in 2..Len(ret) : ret[k] = PreviousMonth(ret[k - 1])

\* a window asked for in January that is longer than a year: the base month
\* is in the year before and the list crosses another year boundary
C18_Witness ==
    /\ calls # <<>>
    /\ today.month = 1
    /\ Len(calls[1].ret) > 12
    /\ calls[1].ret[1] = [yr |-> today.year - 1, mo |-> 11]
    /\ calls[1].ret[12] = [yr |-> today.year - 2, mo |-> 12]

(***************************************************************************)
(* Specification SpecDedup: _dedup_columns on every short header           *)
(***************************************************************************)
InitDedup ==
    /\ MachineIdle
    /\ input \in [columns : SeqsUpTo(HeaderLabels, MaxCols)]
    /\ calls = <<>>

CallDedup ==
    /\ calls = <<>>
    /\ calls' = <<[fn |-> "_dedup_columns", arg |-> input.columns,
                   ret |-> _dedup_columns(input.columns)]>>
    /\ UNCHANGED <<input, envVars, cacheVars, loadVars>>

NextDedup == CallDedup

SpecDedup == InitDedup /\ [][NextDedup]_vars

\* how many of the first k labels equal the k-th
Occurrence(cols, k) == Cardinality({j \in 1..k : cols[j] = cols[k]})

\* C19, first part: labels being compared without their surrounding blanks,
\* the first occurrence of a label is returned unchanged and its k-th
\* occurrence (k >= 2) is returned as L_dupk.
C19_OccurrencesSuffixed ==
    \A c \in DOMAIN calls :
        LET cols == [k \in DOMAIN calls[c].arg |-> Strip(calls[c].arg[k])]
            ret == calls[c].ret
        IN  /\ Len(ret) = Len(cols)
            /\ \A k \in DOMAIN cols :
                  ret[k] = IF Occurrence(cols, k) = 1 THEN cols[k]
                           ELSE Append(cols[k], DupSuffixes[Occurrence(cols, k)])

\* C19: after _dedup_columns the first occurrence of each label is unchanged,
\* its k-th occurrence is L_dupk, and the labels returned are pairwise
\* distinct, also for an input that already holds a label L_dupk.
C19_DedupDistinct ==
    /\ C19_OccurrencesSuffixed
    /\ \A c \in DOMAIN calls : ~HasDuplicates(calls[c].ret)

(***************************************************************************)
(* The plan directory.  A cell is a text (a sequence of characters), NaN   *)
(* for a cell the file leaves empty, or one of the two fixed labels.       *)
(***************************************************************************)
NaN == <<"nan">>
INDEPENDENT_OTHER == <<"Independent / Other">>
INDEPENDENT_OTHER_TIGHT == <<"Independent/Other">>

PLANDIR_OUTPUT_COLS == << <<"Contract_ID">>, <<"Org_Name">>, <<"Parent_Org">>, <<"Plan_Type">> >>

\* Series.replace("", np.nan)
BlankToNaN(v) == IF v = <<>> THEN NaN ELSE v

\* Series.fillna(other), row by row
FillNa(v, other) == IF v = NaN THEN other ELSE v

\* drop_duplicates(c): the rows whose value in the column at position p
\* was not seen in an earlier row
DropDuplicates(rows, p) ==
    FilterRows(rows, {r \in DOMAIN rows : \A q \in 1..(r - 1) : rows[q][p] # rows[r][p]})

\* lines 435-437, on a frame holding Parent_Org and Org_Name once each
FillParentOrg(frame) ==
    Bind(frame, LAMBDA df :
        IF Cardinality(Positions(df.cols, <<"Parent_Org">>)) # 1
           \/ Cardinality(Positions(df.cols, <<"Org_Name">>)) # 1
        THEN Raised
        ELSE Bind(MinIndex(Positions(df.cols, <<"Parent_Org">>)), LAMBDA p :
             Bind(MinIndex(Positions(df.cols, <<"Org_Name">>)), LAMBDA o :
                Ok([df EXCEPT !.rows =
                      [r \in DOMAIN df.rows |->
                          [df.rows[r] EXCEPT ![p] =
                              FillNa(BlankToNaN(@), df.rows[r][o])]]]))))

normalise_plandir(frame) ==
    Bind(frame, LAMBDA df :
    Bind(FillParentOrg(
            GuaranteeCols([df EXCEPT !.cols = _normalise_cols(df.cols, PLANDIR_COL_ALIASES)],
                          PLANDIR_OUTPUT_COLS)),
         LAMBDA filled :
            IF ~filled.ok THEN Raised
            ELSE Bind(Select(filled.df, PLANDIR_OUTPUT_COLS), LAMBDA chosen :
                 Ok([chosen EXCEPT !.rows =
                       DropDuplicates(chosen.rows,
                                      MinIndex(Positions(chosen.cols, <<"Contract_ID">>)))]))))

(***************************************************************************)
(* add_parent_org                                                          *)
(***************************************************************************)
\* DataFrame.empty: no row or no column
IsEmpty(df) == df.rows = <<>> \/ df.cols = <<>>

\* the value of the first column labelled c in a row
Cell(df, row, c) == row[MinIndex(Positions(df.cols, c))]

\* a fallback writing the fixed label on every row
OwnOrgNameIgnored(enroll) ==
    SetCol(enroll, <<"Parent_Org">>, LAMBDA row : INDEPENDENT_OTHER_TIGHT)

\* lines 605-607
OwnOrgName(enroll) ==
    IF HasCol(enroll, <<"Org_Name">>)
    THEN SetCol(enroll, <<"Parent_Org">>, LAMBDA row : Cell(enroll, row, <<"Org_Name">>))
    ELSE SetCol(enroll, <<"Parent_Org">>, LAMBDA row : INDEPENDENT_OTHER_TIGHT)

\* a lookup taking the last entry of a key in place of the first
LastParentOf(right, key) ==
    LET hits == {r \in DOMAIN right.rows : Cell(right, right.rows[r], <<"Contract_ID">>) = key}
    IN  IF hits = {} THEN NaN
        ELSE Cell(right, right.rows[CHOOSE r \in hits : \A q \in hits : q <= r],
                  <<"Parent_Org">>)

\* line 609 with the lookup of the left join: the Parent_Org of the first
\* entry of the reference table with that key, NaN when there is none
ParentOf(right, key) ==
    LET kept == DropDuplicates(right.rows, MinIndex(Positions(right.cols, <<"Contract_ID">>)))
        hits == {r \in DOMAIN kept : Cell(right, kept[r], <<"Contract_ID">>) = key}
    IN  IF hits = {} THEN NaN
        ELSE Cell(right, kept[MinIndex(hits)], <<"Parent_Org">>)

\* a join in which a row without a match is left out
InnerJoinRows(enroll, plandir) ==
    FilterRows([r \in DOMAIN enroll.rows |->
                  Append(enroll.rows[r],
                         FillNa(ParentOf(plandir, Cell(enroll, enroll.rows[r], <<"Contract_ID">>)),
                                INDEPENDENT_OTHER))],
               {r \in DOMAIN enroll.rows :
                   ParentOf(plandir, Cell(enroll, enroll.rows[r], <<"Contract_ID">>)) # NaN})

\* lines 608-612: one output row per enrollment row, Parent_Org appended
LeftJoinRows(enroll, plandir) ==
    [r \in DOMAIN enroll.rows |->
        Append(enroll.rows[r],
               FillNa(ParentOf(plandir, Cell(enroll, enroll.rows[r], <<"Contract_ID">>)),
                      INDEPENDENT_OTHER))]

\* line 605
NeedsFallback(plandir) == IsEmpty(plandir) \/ ~HasCol(plandir, <<"Contract_ID">>)

add_parent_org(enroll, plandir) ==
    IF NeedsFallback(plandir) THEN Ok(OwnOrgName(enroll))
    ELSE IF ~HasCol(plandir, <<"Parent_Org">>) \/ ~HasCol(enroll, <<"Contract_ID">>)
            \/ HasCol(enroll, <<"Parent_Org">>)
         THEN Raised
         ELSE Ok([cols |-> Append(enroll.cols, <<"Parent_Org">>),
                  rows |-> LeftJoinRows(enroll, plandir)])

(***************************************************************************)
(* Specification SpecJoin: a plan directory file is normalised and an      *)
(* enrollment table is joined against the reference table                  *)
(***************************************************************************)
DIR_FULL == << <<"contract number">>, <<"organization name">>, <<"parent organization">> >>
DIR_NO_PARENT == << <<"h_number">>, <<"contract name">> >>
DIR_NO_ORG == << <<"Contract_ID">>, <<"parent org">> >>
DIR_NO_KEY == << <<"x">>, <<"parent org">> >>

\* the rows a directory file may hold under each header
DirRows(header) ==
    IF header = DIR_FULL
    THEN {<<c, o, q>> : c \in {<<"1">>, <<"2">>}, o \in {NaN, <<"a">>},
                        q \in {NaN, <<"p">>, <<"q">>}}
    ELSE IF header = DIR_NO_PARENT
    THEN {<<c, o>> : c \in {<<"1">>, <<"2">>}, o \in {NaN, <<"a">>}}
    ELSE {<<c, q>> : c \in {<<"1">>, <<"2">>}, q \in {NaN, <<"p">>, <<"q">>}}

DirFiles ==
    UNION {[cols : {h}, rows : SeqsUpTo(DirRows(h), MaxDirRows) \ {<<>>}] :
              h \in {DIR_FULL, DIR_NO_PARENT, DIR_NO_ORG}}

\* a table that reached add_parent_org without the key column
KeylessTable == [cols |-> DIR_NO_KEY, rows |-> << <<<<"1">>, <<"p">>>> >>]

ENROLL_COLS == << <<"Contract_ID">>, <<"Org_Name">>, <<"Enrollment">> >>

EnrollRows == { << <<"1">>, <<"a">>, 5 >>, << <<"1">>, <<"b">>, 7 >>, << <<"3">>, <<"c">>, 5 >> }

EnrollTables == [cols : {ENROLL_COLS}, rows : SeqsUpTo(EnrollRows, MaxEnrollRows) \ {<<>>}]

InitJoin ==
    /\ MachineIdle
    /\ input \in [enroll : EnrollTables,
                   dir : [kind : {"file"}, df : DirFiles]
                         \cup {[kind |-> "none", df |-> EMPTY_FRAME],
                               [kind |-> "given", df |-> KeylessTable]}]
    /\ calls = <<>>

\* load_plan_directory found a file: it is normalised
CallNormalisePlandir ==
    /\ calls = <<>>
    /\ input.dir.kind = "file"
    /\ calls' = <<[fn |-> "normalise_plandir", arg |-> input.dir.df,
                   ret |-> normalise_plandir(input.dir.df)]>>
    /\ UNCHANGED <<input, envVars, cacheVars, loadVars>>

CallAddParentOrg ==
    /\ \/ calls = <<>> /\ input.dir.kind # "file"
       \/ Len(calls) = 1 /\ calls[1].fn = "normalise_plandir" /\ calls[1].ret.ok
    /\ \E plandir \in {IF calls = <<>> THEN input.dir.df ELSE calls[1].ret.df} :
          calls' = Append(calls,
                     [fn |-> "add_parent_org",
                      arg |-> [enroll |-> input.enroll, plandir |-> plandir],
                      ret |-> add_parent_org(input.enroll, plandir)])
    /\ UNCHANGED <<input, envVars, cacheVars, loadVars>>

NextJoin == CallNormalisePlandir \/ CallAddParentOrg

SpecJoin == InitJoin /\ [][NextJoin]_vars

JoinCalls == {c \in DOMAIN calls : calls[c].fn = "add_parent_org"}
DirCalls == {c \in DOMAIN calls : calls[c].fn = "normalise_plandir"}

\* the Parent_Org written on row r of the table a call returned
ParentWritten(call, r) == Cell(call.ret.df, call.ret.df.rows[r], <<"Parent_Org">>)

C12_FallbackToOrgName ==
    \A c \in JoinCalls :
        LET enroll == calls[c].arg.enroll
            plandir == calls[c].arg.plandir
        IN  (plandir.rows = <<>> \/ <<"Contract_ID">> \notin Range(plandir.cols)) =>
                /\ calls[c].ret.ok
                /\ \A r \in DOMAIN enroll.rows :
                      ParentWritten(calls[c], r) = enroll.rows[r][2]

\* an empty reference table and two rows of different organisations
C12_Witness ==
    \E c \in JoinCalls :
        /\ calls[c].arg.plandir = EMPTY_FRAME
        /\ Len(calls[c].arg.enroll.rows) = 2
        /\ calls[c].arg.enroll.rows[1][2] # calls[c].arg.enroll.rows[2][2]
        /\ ParentWritten(calls[c], 1) = calls[c].arg.enroll.rows[1][2]
        /\ ParentWritten(calls[c], 2) = calls[c].arg.enroll.rows[2][2]

\* a value is known: the cell is neither missing nor the empty string
Known(v) == v # NaN /\ v # <<>>

\* the cell of a directory file's row under the column that resolves to the
\* canonical field, NaN when no column does
SourceCell(file, row, field) ==
    LET named == _normalise_cols(file.cols, PLANDIR_COL_ALIASES)
    IN  IF field \in Range(named) THEN row[MinIndex(Positions(named, field))] ELSE NaN

\* the first row of the file with that contract
SourceRow(file, key) ==
    file.rows[MinIndex({r \in DOMAIN file.rows :
                           SourceCell(file, file.rows[r], <<"Contract_ID">>) = key})]

\* C13: in the table normalise_plandir returns, every entry's Parent_Org is
\* the source's parent organisation when that is known, else the entry's
\* Org_Name when that is known, else the fixed label; no entry has an empty
\* or missing Parent_Org.
C13_ParentOrgFallbacks ==
    \A c \in DirCalls :
        /\ calls[c].ret.ok
        /\ \A r \in DOMAIN calls[c].ret.df.rows :
              LET entry == calls[c].ret.df.rows[r]
                  src == SourceRow(calls[c].arg, entry[1])
                  parent == SourceCell(calls[c].arg, src, <<"Parent_Org">>)
                  org == SourceCell(calls[c].arg, src, <<"Org_Name">>)
              IN  /\ Known(entry[3])
                  /\ IF Known(parent) THEN entry[3] = parent
                     ELSE IF Known(org) THEN entry[3] = org
                     ELSE entry[3] \in {INDEPENDENT_OTHER, INDEPENDENT_OTHER_TIGHT}

\* the reference entries of a key, in the order of the reference table
EntriesOf(plandir, key) ==
    {r \in DOMAIN plandir.rows : Cell(plandir, plandir.rows[r], <<"Contract_ID">>) = key}

\* the join of one call gives each row what the statement says
JoinAsStated(c) ==
    LET enroll == calls[c].arg.enroll
        plandir == calls[c].arg.plandir
    IN  (plandir.rows # <<>> /\ <<"Contract_ID">> \in Range(plandir.cols)) =>
            /\ calls[c].ret.ok
            /\ \A r \in DOMAIN enroll.rows :
                  LET hits == EntriesOf(plandir, enroll.rows[r][1])
                  IN  ParentWritten(calls[c], r) =
                        IF hits = {} THEN INDEPENDENT_OTHER
                        ELSE Cell(plandir, plandir.rows[MinIndex(hits)], <<"Parent_Org">>)

\* C14: after a join against a non-empty reference table with Contract_ID,
\* a row whose Contract_ID matches no entry has Parent_Org "Independent /
\* Other", and a row that matches has the Parent_Org of the first reference
\* entry with that Contract_ID.
C14_MatchedAndUnmatched == \A c \in JoinCalls : JoinAsStated(c)

\* the same on the reference tables in which no entry lacks its Parent_Org
JoinAsStatedWhenParentsPresent ==
    \A c \in JoinCalls :
        (\A r \in DOMAIN calls[c].arg.plandir.rows :
            NaN \notin Range(calls[c].arg.plandir.rows[r]))
        => JoinAsStated(c)

(***************************************************************************)
(* load_plan_directory                                                     *)
(***************************************************************************)
\* the run of main is over: the tables and the locals of its calls are gone
RunEnds ==
    /\ months' = <<>>
    /\ i' = 0
    /\ frames' = <<>>
    /\ sources' = <<>>
    /\ local_count' = 0
    /\ live_count' = 0
    /\ aligned' = <<>>
    /\ result' = NoResult

plandir_url(yr, mo) == <<"plan-directory", MONTH_NAMES[mo], yr>>

HINT_PLANDIR == <<"P", "l", "a", "n", "_", "D", "i", "r", "e", "c", "t", "o", "r", "y">>

PLAN_DIRECTORY == <<"p", "l", "a", "n", "-", "d", "i", "r", "e", "c", "t", "o", "r", "y">>

\* the directory file of the store: <<"plandir", name, 0, extension>>; the
\* store holds one such file at most, so the reverse-sorted listing has one
\* candidate
_local_plandir_path(store) ==
    LET there == {q \in DOMAIN store :
                     /\ q[1] = "plandir"
                     /\ StartsWith(q[2], PLAN_DIRECTORY)
                     /\ q[4] \in Range(EXTENSIONS)}
    IN  IF there = {} THEN NoPath ELSE CHOOSE q \in there : TRUE

\* lines 521-525: [value, urls, cache], value the first fetched table of more
\* than 5 rows, NoneDf when no month gives one
RECURSIVE FetchDirectory(_, _, _, _)
FetchDirectory(ms, cache, net, t) ==
    IF ms = <<>> THEN [value |-> NoneDf, urls |-> <<>>, cache |-> cache]
    ELSE Bind(_fetch_zip_df(plandir_url(Head(ms).yr, Head(ms).mo), HINT_PLANDIR,
                            cache, net, t), LAMBDA got :
         Bind(IF got.requested THEN <<plandir_url(Head(ms).yr, Head(ms).mo)>> ELSE <<>>,
              LAMBDA asked :
            IF got.value.ok /\ Len(got.value.df.rows) > MIN_DIR_ROWS
            THEN [value |-> got.value, urls |-> asked, cache |-> got.cache]
            ELSE Bind(FetchDirectory(Tail(ms), got.cache, net, t), LAMBDA rest :
                    [value |-> rest.value, urls |-> asked \o rest.urls,
                     cache |-> rest.cache])))

\* the body of load_plan_directory: [value, urls, read, cache, raised]
PlanDirectoryBody(store, day, cache, net, t) ==
    Bind(_local_plandir_path(store), LAMBDA local :
    Bind(IF local # NoPath THEN _read_local_file(store, local) ELSE NoneDf, LAMBDA df :
        IF local # NoPath /\ df.ok /\ Len(df.df.rows) > MIN_DIR_ROWS
        THEN Bind(normalise_plandir(df.df), LAMBDA normed :
                [value |-> IF normed.ok THEN normed.df ELSE EMPTY_FRAME,
                 urls |-> <<>>, read |-> local, cache |-> cache,
                 raised |-> ~normed.ok])
        ELSE Bind(FetchDirectory(rolling_months(DIR_MONTHS, day), cache, net, t),
                  LAMBDA got :
             Bind(IF got.value.ok THEN normalise_plandir(got.value.df)
                  ELSE Ok(EMPTY_FRAME), LAMBDA normed :
                [value |-> IF normed.ok THEN normed.df ELSE EMPTY_FRAME,
                 urls |-> got.urls, read |-> local, cache |-> got.cache,
                 raised |-> ~normed.ok]))))

DirAnswer(t, e, b, value) ==
    [at |-> t, epoch |-> e, build |-> b, value |-> value]

\* main, line 936, the result still cached: the run ends
LoadPlanDirectoryCached ==
    /\ pc = "returned"
    /\ Fresh(plandir_cache, <<>>, now, PLANDIR_TTL)
    /\ pc' = "idle"
    /\ plan_df' = plandir_cache[<<>>].value
    /\ RunEnds
    /\ UNCHANGED <<requests, build, request_log, reads, served, dir_served>>
    /\ UNCHANGED <<pureVars, envVars, cacheVars>>

\* main, line 936, the body runs: the run ends
LoadPlanDirectoryCold ==
    /\ pc = "returned"
    /\ ~Fresh(plandir_cache, <<>>, now, PLANDIR_TTL)
    /\ \E body \in {PlanDirectoryBody(local_store, today, fetch_cache, remote, now)} :
          /\ pc' = IF body.raised THEN "raised" ELSE "idle"
          /\ build' = build + 1
          /\ requests' = requests \o body.urls
          /\ request_log' = request_log \o
                [k \in DOMAIN body.urls |->
                    [at |-> now, epoch |-> epoch, build |-> build + 1]]
          /\ reads' = IF body.read # NoPath
                      THEN Append(reads, [path |-> body.read, build |-> build + 1])
                      ELSE reads
          /\ fetch_cache' = body.cache
          /\ plandir_cache' = IF body.raised THEN plandir_cache
                              ELSE Store(plandir_cache, <<>>, body.value, now)
          /\ dir_served' = IF body.raised THEN dir_served
                           ELSE dir_served \cup
                                  {DirAnswer(now, epoch, build + 1, body.value)}
          /\ plan_df' = IF body.raised THEN plan_df ELSE body.value
    /\ RunEnds
    /\ UNCHANGED <<served, pureVars, envVars, now, enroll_cache, epoch>>

(***************************************************************************)
(* Time and the refresh button                                             *)
(***************************************************************************)
\* the instants at which the application is looked at, in seconds: the
\* start, three hours and six hours later
Clock == {0, 10800, 21600}

\* time passes between two runs of main
Tick ==
    /\ pc = "idle"
    /\ \E t \in Clock : t > now /\ now' = t
    /\ UNCHANGED <<pureVars, envVars, loadVars, fetch_cache, enroll_cache, epoch,
                   plandir_cache>>

\* a clearing that leaves the entries where they are
ClearNothing(cache) == cache

\* st.cache_data.clear() on the cache of one function
Clear(cache) == EmptyMap

\* lines 924-926: st.cache_data.clear() empties the cache of every cached
\* function, then main is run again
Refresh ==
    /\ pc = "idle"
    /\ epoch < MaxRefreshes
    /\ fetch_cache' = Clear(fetch_cache)
    /\ enroll_cache' = Clear(enroll_cache)
    /\ plandir_cache' = Clear(plandir_cache)
    /\ epoch' = epoch + 1
    /\ UNCHANGED <<pureVars, envVars, loadVars, now>>

(***************************************************************************)
(* Specification Spec: the application is run again and again while time   *)
(* passes and the refresh button is pressed                                *)
(***************************************************************************)
\* the situations of one period that matter to the caches: a remote miss, a
\* remote table, a usable local file
CacheScenarios ==
    { [local |-> NO_LOCAL, remote |-> NOT_FOUND],
      [local |-> NO_LOCAL, remote |-> REMOTE_GOOD],
      [local |-> LOCAL_GOOD, remote |-> REMOTE_GOOD] }

\* the repository and the server the application runs against: the periods
\* are in one situation and the periods between them in another
Worlds == CacheScenarios \X CacheScenarios

DIR_PATH == <<"plandir", PLAN_DIRECTORY, 0, CSV>>

DirTable == Table(GridTable(DIR_FULL, MIN_DIR_ROWS + 1, {}))

\* the plan directory: a local file, or an archive for the second month asked
DirScenarios ==
    { [local |-> DIR_PATH :> DirTable, good |-> {}],
      [local |-> EmptyMap, good |-> {2}] }

DirRemoteOf(day, good) ==
    LET ms == rolling_months(DIR_MONTHS, day) IN
    [u \in {plandir_url(ms[k].yr, ms[k].mo) : k \in DOMAIN ms} |->
        IF \E k \in good : plandir_url(ms[k].yr, ms[k].mo) = u
        THEN Archive(DirTable) ELSE NOT_FOUND]

Init ==
    /\ input = <<>>
    /\ calls = <<>>
    /\ today = [year |-> 2024, month |-> 2]
    /\ \E w \in Worlds, dir \in DirScenarios :
         LET ms == rolling_months(MaxPeriods, today)
             sc == [k \in 1..MaxPeriods |-> IF k % 2 = 1 THEN w[1] ELSE w[2]]
         IN /\ local_store = StoreOf(ms, [k \in 1..MaxPeriods |-> sc[k].local]) @@ dir.local
            /\ remote = RemoteOf(ms, [k \in 1..MaxPeriods |-> sc[k].remote])
                         @@ DirRemoteOf(today, dir.good)
    /\ now = 0
    /\ fetch_cache = EmptyMap
    /\ enroll_cache = EmptyMap
    /\ requests = <<>>
    /\ pc = "idle"
    /\ months = <<>>
    /\ i = 0
    /\ frames = <<>>
    /\ sources = <<>>
    /\ local_count = 0
    /\ live_count = 0
    /\ aligned = <<>>
    /\ result = NoResult
    /\ epoch = 0
    /\ plandir_cache = EmptyMap
    /\ build = 0
    /\ request_log = <<>>
    /\ reads = <<>>
    /\ served = {}
    /\ dir_served = {}
    /\ plan_df = NoResult

\* line 913: the windows the sidebar offers, the shortest and the longest
Windows == {1, MaxPeriods}

\* main, line 935, the window picked in the sidebar: the body has to run
ColdCall ==
    \E n \in Windows :
        /\ Cardinality(served) < MaxBuilds
        /\ LoadEnrollmentStart(n)

\* main, line 935: the window is still cached
WarmCall == \E n \in Windows : LoadEnrollmentCached(n)

Next ==
    \/ ColdCall
    \/ WarmCall
    \/ LoadPeriod
    \/ LoadEnrollmentEmpty
    \/ LoadEnrollmentConcat
    \/ LoadPlanDirectoryCached
    \/ LoadPlanDirectoryCold
    \/ Tick
    \/ Refresh

Spec == Init /\ [][Next]_vars

(***************************************************************************)
(* Caching of load_enrollment and of the fetches                           *)
(***************************************************************************)
\* the runs of the body that a call for the list ms at time t of the current
\* epoch repeats: same list, no clearing since, less than ENROLL_TTL ago
RepeatedRuns(ms, t) ==
    {a \in served : /\ a.months = ms
                    /\ a.epoch = epoch
                    /\ a.at <= t
                    /\ t - a.at < ENROLL_TTL}

\* a step in which main calls load_enrollment
CallsLoadEnrollment == pc = "idle" /\ pc' \in {"loop", "returned"}

\* a call repeating a run returns at once what the run returned, and neither
\* reads a local file nor requests a URL
RepeatAnsweredFromCache ==
    CallsLoadEnrollment =>
        \A a \in RepeatedRuns(months', now) :
            /\ pc' = "returned"
            /\ result' = a.value
            /\ requests' = requests
            /\ request_log' = request_log
            /\ reads' = reads
            /\ build' = build

\* two requests of one URL with no clearing between them are at least
\* FETCH_TTL seconds apart
UrlOncePerTtl ==
    \A j, k \in DOMAIN requests :
        (/\ j < k
         /\ requests[j] = requests[k]
         /\ request_log[j].epoch = request_log[k].epoch)
        => request_log[k].at - request_log[j].at >= FETCH_TTL

\* C15: with no refresh in between, a second load_enrollment call with the
\* same period list less than 21,600 seconds after the first returns the
\* first call's result without a local read or a remote fetch, and no URL is
\* requested twice within 21,600 seconds whichever windows are asked for in
\* between
C15_SecondCallFromCache == [][RepeatAnsweredFromCache]_vars /\ []UrlOncePerTtl

\* a call returned, three hours later and before any clearing, the table a
\* run of the body had fetched for the same list
C15_Witness ==
    /\ pc = "returned"
    /\ requests # <<>>
    /\ \E a \in RepeatedRuns(months, now) :
          /\ a.at < now
          /\ result = a.value
          /\ ~IsEmpty(a.value.df)

(***************************************************************************)
(* The refresh button                                                      *)
(***************************************************************************)
\* the step of st.cache_data.clear()
Clears == epoch' = epoch + 1

\* a step in which load_enrollment returns to main, and one in which
\* load_plan_directory does
EnrollmentReturns == pc \in {"idle", "loop"} /\ pc' = "returned"

DirectoryReturns == pc = "returned" /\ pc' = "idle"

\* the requests and the local reads of the b-th run of a body
RequestedBy(b) == {requests[k] : k \in MadeBy(request_log, b)}

ReadBy(b) == {reads[k].path : k \in MadeBy(reads, b)}

\* the first run of the body of load_enrollment after a clearing
FirstRunsAfterClearing ==
    {a \in served : /\ a.epoch > 0
                    /\ \A b \in served : b.epoch = a.epoch => a.build <= b.build}

\* the run looked at every source of its list again: the local file where
\* there is one, the remote source where no local file is usable
ResolvedAgain(a) ==
    \A k \in DOMAIN a.months :
        LET yr == a.months[k].yr
            mo == a.months[k].mo
            path == _local_cpsc_path(local_store, yr, mo)
        IN  /\ path # NoPath => path \in ReadBy(a.build)
            /\ ~LocalUsable(yr, mo) => cpsc_url(yr, mo) \in RequestedBy(a.build)

\* the run of load_plan_directory after a clearing asked what a run with
\* empty caches asks
DirectoryResolvedAgain(d) ==
    LET scratch == PlanDirectoryBody(local_store, today, EmptyMap, remote, d.at)
    IN  /\ scratch.read # NoPath => scratch.read \in ReadBy(d.build)
        /\ RequestedBy(d.build) = Range(scratch.urls)
        /\ d.value = scratch.value

\* the clearing leaves no entry in any cache
ClearingEmptiesAll ==
    Clears => fetch_cache' = EmptyMap /\ enroll_cache' = EmptyMap
              /\ plandir_cache' = EmptyMap

\* what a call returns was computed by a run made after the last clearing
ReturnsValueOfThisEpoch ==
    /\ EnrollmentReturns =>
          \E a \in served' : a.months = months' /\ a.epoch = epoch /\ a.value = result'
    /\ DirectoryReturns =>
          \E d \in dir_served' : d.epoch = epoch /\ d.value = plan_df'

SourcesResolvedAfterClearing ==
    /\ \A a \in FirstRunsAfterClearing : ResolvedAgain(a)
    /\ \A d \in dir_served : d.epoch > 0 => DirectoryResolvedAgain(d)

\* C16: a refresh empties the window cache, the fetch cache (misses
\* included) and the plan directory cache at once; the next load_enrollment
\* and load_plan_directory calls resolve every source again, and no later
\* call returns a value computed before the refresh
C16_RefreshEmptiesEveryCache ==
    /\ [][ClearingEmptiesAll /\ ReturnsValueOfThisEpoch]_vars
    /\ []SourcesResolvedAfterClearing

\* after a clearing both functions ran again, the window asked for having
\* been built before the clearing with a request that missed
C16_Witness ==
    /\ pc = "idle"
    /\ \E a \in served, b \in FirstRunsAfterClearing, d \in dir_served :
          /\ a.epoch = 0
          /\ b.months = a.months
          /\ b.at = a.at
          /\ RequestedBy(a.build) # {}
          /\ RequestedBy(b.build) = RequestedBy(a.build)
          /\ \E k \in DOMAIN b.months : PeriodFails(b.months[k].yr, b.months[k].mo)
          /\ d.epoch = b.epoch
          /\ d.build > b.build

(***************************************************************************)
(* One build of the window                                                 *)
(***************************************************************************)
\* neither the local file nor the remote source gives a table for the period
FetchFails(yr, mo) == ~LocalUsable(yr, mo) /\ ~Usable(RemoteContent(yr, mo))

PeriodsOf(df) ==
    IF IsEmpty(df) THEN {}
    ELSE {Cell(df, df.rows[r], <<"Period">>) : r \in DOMAIN df.rows}

\* the b-th run of the body sent no URL twice
NoRetryIn(b) ==
    \A j, k \in MadeBy(request_log, b) : requests[j] = requests[k] => j = k

\* the period loads and its table keeps a row
GivesRows(yr, mo) ==
    Bind(OfferedFrame(yr, mo), LAMBDA f : f.ok /\ f.df.rows # <<>>)

\* the result of a run has no row of a period whose fetch failed and has the
\* rows of every period that gives some, those after a failed one included
FailedPeriodsLeftOut(a) ==
    \A k \in DOMAIN a.months :
        LET yr == a.months[k].yr
            mo == a.months[k].mo
        IN  /\ FetchFails(yr, mo) => <<yr, mo, 1>> \notin PeriodsOf(a.value.df)
            /\ GivesRows(yr, mo) => <<yr, mo, 1>> \in PeriodsOf(a.value.df)

\* C17: within one build of the window the remote source of a period is
\* requested at most once; a failed fetch is not retried in that build, its
\* period is absent from the build's result, and the build goes on with the
\* next period
C17_OneRequestPerPeriod ==
    /\ \A b \in 1..build : NoRetryIn(b)
    /\ pc = "loop" => Cardinality(MadeBy(request_log, build)) <= i
    /\ \A a \in served : FailedPeriodsLeftOut(a)

\* a build whose first period was requested once and gave nothing, and whose
\* second period is in the result
C17_Witness ==
    /\ pc = "returned"
    /\ \E a \in served :
          /\ a.build = build
          /\ a.months = months
          /\ Len(months) >= 2
          /\ FetchFails(months[1].yr, months[1].mo)
          /\ Cardinality({k \in MadeBy(request_log, build) :
                            requests[k] = cpsc_url(months[1].yr, months[1].mo)}) = 1
          /\ <<months[2].yr, months[2].mo, 1>> \in PeriodsOf(result.df)
          /\ <<months[1].yr, months[1].mo, 1>> \notin PeriodsOf(result.df)

(***************************************************************************)
(* Misses kept by the fetch cache                                          *)
(***************************************************************************)
\* a run before the b-th requested the URL of the period and got no table
MissedBefore(b, yr, mo) ==
    /\ ~Usable(RemoteContent(yr, mo))
    /\ \E j \in DOMAIN requests :
          requests[j] = cpsc_url(yr, mo) /\ request_log[j].build < b

\* C20: a cold build requests again every period of its list that has no
\* usable local file and whose fetch failed in an earlier build; a miss
\* recorded by an earlier build, for the same or another period list, never
\* makes a cold build skip the request
C20_ColdBuildRetriesMisses ==
    \A a \in served :
        \A k \in DOMAIN a.months :
            LET yr == a.months[k].yr
                mo == a.months[k].mo
            IN  (~LocalUsable(yr, mo) /\ MissedBefore(a.build, yr, mo))
                => cpsc_url(yr, mo) \in RequestedBy(a.build)

(***************************************************************************)
(* Masked enrollment cells                                                 *)
(***************************************************************************)
\* the raw cell carries the masking marker
Masked(text) == "*" \in Range(text)

\* the rows of the argument that the result of the call still holds, told by
\* their row-number cell
RetainedRows(c) ==
    {r \in DOMAIN c.arg.rows :
        \E q \in DOMAIN c.ret.df.rows : c.ret.df.rows[q][1] = c.arg.rows[r][1]}

\* C21: a row whose raw enrollment cell carries the masking marker * is
\* never retained with a positive Enrollment, whatever other characters the
\* cell holds: it is coerced to 0 and dropped by the filter
C21_MaskedRowsDropped ==
    \A k \in DOMAIN calls :
        /\ calls[k].ret.ok
        /\ \A r \in RetainedRows(calls[k]) : ~Masked(calls[k].arg.rows[r][2])

\* the same for the cells that are the marker alone, blanks and thousands
\* separators apart
MarkerAloneDropped ==
    \A k \in DOMAIN calls :
        \A r \in RetainedRows(calls[k]) :
            StripText(ReplaceChar(calls[k].arg.rows[r][2], ",", <<>>)) # <<"*">>

(***************************************************************************)
(* The provenance summary and the periods of the result                    *)
(***************************************************************************)
\* lines 946-947: the periods main reports as loaded
Counted(res) == AttrGet(res, "local_count") + AttrGet(res, "live_count")

\* C22: in every non-empty result of load_enrollment over distinct periods,
\* local_count + live_count equals the number of accepted frames and equals
\* the number of distinct Period values among the rows of the result: every
\* counted period contributes at least one row
C22_CountedPeriodsHaveRows ==
    (pc = "returned" /\ ~IsEmpty(result.df)) =>
        /\ Counted(result) = Len(frames)
        /\ Counted(result) = Cardinality(PeriodsOf(result.df))

\* the first half alone: the counters add up to the accepted frames
CountedAreAcceptedFrames ==
    (pc = "returned" /\ ~IsEmpty(result.df)) => Counted(result) = Len(frames)

(***************************************************************************)
(* Hidden archive entries                                                  *)
(***************************************************************************)
\* C23: _pick_file never returns a hidden or archive-metadata entry: for
\* every name list and every hint the returned name does not contain
\* __MACOSX and does not start with "."
C23_NeverPicksHidden ==
    \A k \in DOMAIN calls :
        calls[k].ret.found => ~Hidden(calls[k].ret.name)

\* the same for the calls made without a hint, and for those in which no
\* name carries the hint
NeverPicksHiddenWithoutHint ==
    \A k \in DOMAIN calls :
        (/\ calls[k].ret.found
         /\ \A j \in DOMAIN calls[k].arg.names :
               ~HintMatches(calls[k].arg.names[j], calls[k].arg.hint))
        => ~Hidden(calls[k].ret.name)

====
